---------------------------- MODULE Spec2Model ----------------------------
(***************************************************************************)
(* Money transfer (BalanceService.transfer) and balance reset              *)
(* (UserRepository.resetBalance, run by BalanceResetConsumer.process for   *)
(* the jobs BalanceResetService.resetAllBalances adds to queue             *)
(* 'reset-balance') of the nst service, over the account table of a        *)
(* PostgreSQL store.                                                       *)
(*                                                                         *)
(* Money is counted in 1/Scale of a cent, so that an amount with more than *)
(* two decimals is a value of the model and toFixed(2) is a real rounding. *)
(* A login is a string, modelled as the sequence of its character codes.   *)
(* Every step between two awaits of the code is one action.                *)
(***************************************************************************)
EXTENDS Integers, Sequences, FiniteSets, TLC

\* ------------------------------------------------------------------ bounds
MaxTransfers == 2      \* calls of BalanceService.transfer, all concurrent
MaxBalance   == 2      \* largest initial balance, in cents
MaxAmount    == 3      \* largest requested amount, in cents
Scale        == 2      \* units per cent (2: half cents)
MaxJobs      == 2      \* calls of BalanceResetService.resetAllBalances
MaxClients   == 2      \* concurrent callers of register and update
MaxUploads   == 6      \* uploads that get as far as choosing a file name

Cent == Scale

\* "a" < "aa" < "b"
Logins == { <<1>>, <<1, 1>>, <<2>> }
\* and "ba": the logins of two disjoint pairs of accounts
FourLogins == Logins \cup { <<2, 1>> }

Tx      == 1..MaxTransfers
\* the one reset worker (@Processor, default concurrency) as a lock owner
Reset   == 0
NoOwner == 0 - 1

\* the amount of a validated TransferDto (@Min(0.01), two decimals) that the
\* concurrent specifications request: one cent
ValidAmounts == { Cent }
\* amounts an unvalidated call of the service can hold
AnyAmounts   == (0 - Cent)..(MaxAmount * Cent)

\* the requests of POST /balance-reset and the jobs they add to the queue
Callers == 1..MaxJobs
JobIds  == 1..MaxJobs
\* process() run for a job that the specification does not follow in the queue
NoJob   == 0

\* resetBalanceQueue.add('reset-all-balances', {}): the job's name and data
\* (QueueNameAsJobName: the queue's name passed as the job's name)
QueueNameAsJobName == "reset-balance"
JobName == "reset-all-balances"
EmptyPayload == <<>>
NoSuchJob == [state |-> "none", runs |-> 0, name |-> "", data |-> <<>>]
\* message: 'Reset balances job has been queued successfully'
QueuedMessage == "Reset balances job has been queued successfully"
NoReply == [kind |-> "none", jobId |-> NoJob, message |-> ""]

\* The error a transfer rejects with when the store raised `error`: the
\* method has no try/catch and the @Transactional wrapper rolls back and
\* rethrows what it caught.
\* (AsInternalError: a new error thrown in place of the store's)
AsInternalError(error) == "internal server error"
Propagated(error) == error

\* what a storage operation can reject with
StorageErrors == { "connection lost", "deadlock detected" }
NoError == "none"
NoCall == "none"
\* START TRANSACTION takes no lock: it fails when the connection does
BeginError == "connection lost"
NoFailure == [raised |-> NoError, thrown |-> NoError]
Failed(error) == [raised |-> error, thrown |-> Propagated(error)]

\* callers of register and update, the e-mail addresses they use
Clients == 1..MaxClients
Emails == { "a@x", "b@x" }
NoEmail == ""
UserLogins == { <<1>>, <<2>> }
NoUser == [login |-> <<>>, email |-> NoEmail, password |-> 0]
NoRequest == [kind |-> "none", login |-> <<>>, email |-> NoEmail]

\* the user whose avatars are followed, the file names v4() can yield
AvatarOwner == <<1>>
AvatarIds == 1..MaxUploads
NoAvatar == 0
NoAvatarRequest == [kind |-> "none", login |-> <<>>, id |-> NoAvatar]
\* if (user.avatars.length > 5)
AvatarLimit == 5
\* (AtLimit: the upload refused from 5 avatars on)
AtLimit(length) == length >= AvatarLimit
OverLimit(length) == length > AvatarLimit

Null == [found |-> FALSE, login |-> <<>>, balance |-> 0]
NoDto == [from |-> <<>>, to |-> <<>>, amount |-> 0]
NoOutcome == [kind |-> "none", login |-> <<>>]
\* a transaction that has run no query yet has no snapshot
NoSnapshot == [taken |-> FALSE]

VARIABLES
  store,      \* committed rows of the user table: login -> balance
  lock,       \* holder of each row's exclusive lock, NoOwner when free
  pc,         \* where each transfer call stands
  opened,     \* whether its wrapper has opened a transaction on the store
  dto,        \* its TransferDto
  user1,      \* result of its first locking read
  user2,      \* result of its second locking read
  fromUser,   \* the sender entity as mutated and handed to save
  toUser,     \* the receiver entity as mutated and handed to save
  written,    \* rows its save has updated inside the open transaction
  outcome,    \* what the call returned or threw
  lookups,    \* the logins of the locking reads it issued, in order
  saveCalls,  \* how often it invoked save
  failure,    \* the error the store raised to it and the one it rejected with
  rpc,        \* where the reset worker stands
  rdone,      \* rows the reset's UPDATE statement has locked and set to 0
  log,        \* what the run of process() under way has logged, in order
  caught,     \* the error resetBalance() rejected with
  rejected,   \* the error process() rejected with
  spc,        \* where each call of resetAllBalances stands
  reply,      \* what it returned or threw
  waiting,    \* the jobs waiting in queue 'reset-balance', oldest first
  active,     \* the job the worker is processing
  jobs,       \* each job's state and how often process() was run for it
  calls,      \* query-runner process(): the storage calls it made, in order
  pending,    \* the error its try statement is about to throw after finally
  failedAt,   \* the first storage call of the run that rejected
  rejections, \* the storage calls of the run that rejected, with their errors
  accounts,   \* rows of the user table: login, email, password
  upc,        \* where each call of register or update stands
  ureq,       \* its arguments
  uentity,    \* the entity it built or loaded and hands to save
  uloaded,    \* the row save() loaded by primary key before writing
  ures,       \* what the call returned or threw
  avatars,    \* ids of the avatar rows of the user AvatarOwner
  files,      \* names of the files in the avatar folder
  nextId,     \* the next file name v4() yields
  apc,        \* where each call of uploadAvatar or deleteAvatar stands
  areq,       \* its arguments, and the file name an upload chose
  ares,       \* what the call returned or threw
  snapshot,   \* the rows each call of UserRepository.transfer sees
  updated,    \* rows others have committed updates of since its snapshot
  initSum,    \* sum of all balances at the start
  store0      \* the rows at the start

tvars == <<pc, opened, dto, user1, user2, fromUser, toUser, written, outcome,
           lookups, saveCalls, failure>>
rvars == <<rpc, rdone, log, caught, rejected>>
qvars == <<spc, reply, waiting, active, jobs>>
hist  == <<initSum, store0>>
svars == <<snapshot, updated>>
nvars == <<calls, pending, failedAt, rejections>>
avars == <<avatars, files, nextId, apc, areq, ares>>
uvars == <<accounts, upc, ureq, uentity, uloaded, ures>>
vars  == <<store, lock, tvars, rvars, qvars, hist, svars, nvars, uvars,
           avars>>

\* ----------------------------------------------------------- pure helpers
RECURSIVE SumOver(_, _)
SumOver(f, S) ==
  IF S = {} THEN 0
  ELSE LET x == CHOOSE y \in S : TRUE IN f[x] + SumOver(f, S \ {x})

TotalBalance == SumOver(store, DOMAIN store)

\* String comparison by code units, as Array.prototype.sort compares strings.
RECURSIVE StrLess(_, _)
StrLess(s, t) ==
  IF s = <<>> THEN t # <<>>
  ELSE IF t = <<>> THEN FALSE
  ELSE IF Head(s) # Head(t) THEN Head(s) < Head(t)
  ELSE StrLess(Tail(s), Tail(t))

\* [from, to].sort()  (Unsorted: the pair as given)
Unsorted(from, to) == <<from, to>>
SortLogins(from, to) == IF StrLess(to, from) THEN <<to, from>> ELSE <<from, to>>

\* (ToFixed1: toFixed(1), one decimal place kept)
ToFixed1(x) == { (x \div (10 * Scale)) * 10 * Cent }
\* Number(x.toFixed(2)): the nearest multiple of a cent.  A value halfway
\* between two cents is a double lying on either side of the tie, so both
\* neighbours are possible results.
ToFixed2(x) ==
  LET q == x \div Scale
      r == x % Scale
  IN  IF 2 * r < Scale THEN { q * Cent }
      ELSE IF 2 * r > Scale THEN { (q + 1) * Cent }
      ELSE { q * Cent, (q + 1) * Cent }

\* from === to  (NoSelfGuard: the guard left out)
NoSelfGuard(from, to) == FALSE
IsSelfTransfer(from, to) == from = to

\* const [user1Login, user2Login] = [from, to].sort()
\* (SenderLogin: the sender read first)
SenderLogin(d) == d.from
user1LoginOf(d) == SortLogins(d.from, d.to)[1]
user2LoginOf(d) == SortLogins(d.from, d.to)[2]

\* fromUserBalance < amount
\* (LenientCheck: a cent of overdraft passes; ChecksNothing: no check)
LenientCheck(fromUserBalance, amount) == fromUserBalance + Cent < amount
ChecksNothing(fromUserBalance, amount) == FALSE
NonStrict(fromUserBalance, amount) == fromUserBalance <= amount
InsufficientFunds(fromUserBalance, amount) == fromUserBalance < amount

\* Number((fromUserBalance - amount).toFixed(2))
DebitedBalances(fromUserBalance, amount) == ToFixed2(fromUserBalance - amount)
\* Number((Number(toUser.balance) + amount).toFixed(2))
\* (NotCredited: the receiver keeps its balance)
NotCredited(toBalance, amount) == { toBalance }
CreditedBalances(toBalance, amount) == ToFixed2(toBalance + amount)

\* ------------------------------------------------------------ the store
\* SELECT ... FOR UPDATE of one row by `owner`: possible when the row is
\* missing (no lock is taken) or its lock is free or already the owner's.
\* (GrantsAtOnce: a read that never waits; ReadsUnlocked: a plain read;
\* LocksTable: a lock on the whole table instead of the row)
GrantsAtOnce(owner, login) == TRUE
LocksTable(owner, login) == \A l \in DOMAIN lock : lock[l] \in {NoOwner, owner}
CanLock(owner, login) ==
  login \notin DOMAIN store \/ lock[login] \in {NoOwner, owner}

ReadsUnlocked(owner, login) == lock
LockedBy(owner, login) ==
  IF login \in DOMAIN store THEN [lock EXCEPT ![login] = owner] ELSE lock

\* the row as the locking read returns it: the latest committed version
\* (StaleRead: the version of a snapshot taken before other commits)
StaleRead(login) ==
  IF login \in DOMAIN store
  THEN [found |-> TRUE, login |-> login, balance |-> store0[login]]
  ELSE Null
GetOne(login) ==
  IF login \in DOMAIN store
  THEN [found |-> TRUE, login |-> login, balance |-> store[login]]
  ELSE Null

\* The row locks once `owner`'s transaction has ended, by COMMIT or by
\* ROLLBACK: all of its locks are free.
\* (KeepsLocks: the locks outlive the transaction)
KeepsLocks(owner) == lock
Released(owner) ==
  [l \in DOMAIN lock |-> IF lock[l] = owner THEN NoOwner ELSE lock[l]]

\* The isolation levels of the store, weakest first.
IsolationRank(level) ==
  CASE level = "READ UNCOMMITTED" -> 0
    [] level = "READ COMMITTED"   -> 1
    [] level = "REPEATABLE READ"  -> 2
    [] level = "SERIALIZABLE"     -> 3

\* The level of a transaction that is opened without naming one: the data
\* source is of type 'postgres' and configures none, so PostgreSQL's default.
DefaultIsolation == "READ COMMITTED"

\* @Transactional() of BalanceService.transfer: no isolationLevel option
TransferIsolation == DefaultIsolation

\* the level of the transaction call p has open
IsolationOf(p) == IF opened[p] THEN TransferIsolation ELSE "none"

\* ------------------------------------------------------------------- Init
InitBalances == { c * Cent : c \in 0..MaxBalance }

\* every login has an account
AllAccounts == [Logins -> {0, Cent}]
TwoAccounts == [{<<1>>, <<2>>} -> {0, Cent, 2 * Cent}]
\* any of the logins may have no account
SomeAccounts == UNION { [S -> InitBalances] : S \in SUBSET Logins }

InitWith(stores) ==
  /\ store \in stores
  /\ lock = [l \in FourLogins |-> NoOwner]
  /\ pc = [p \in Tx |-> "idle"]
  /\ opened = [p \in Tx |-> FALSE]
  /\ dto = [p \in Tx |-> NoDto]
  /\ user1 = [p \in Tx |-> Null]
  /\ user2 = [p \in Tx |-> Null]
  /\ fromUser = [p \in Tx |-> Null]
  /\ toUser = [p \in Tx |-> Null]
  /\ written = [p \in Tx |-> {}]
  /\ outcome = [p \in Tx |-> NoOutcome]
  /\ lookups = [p \in Tx |-> <<>>]
  /\ saveCalls = [p \in Tx |-> 0]
  /\ failure = [p \in Tx |-> NoFailure]
  /\ rpc = "idle"
  /\ rdone = {}
  /\ log = <<>>
  /\ caught = NoError
  /\ rejected = NoError
  /\ spc = [c \in Callers |-> "idle"]
  /\ reply = [c \in Callers |-> NoReply]
  /\ waiting = <<>>
  /\ active = NoJob
  /\ jobs = [j \in JobIds |-> NoSuchJob]
  /\ accounts = {}
  /\ upc = [c \in Clients |-> "idle"]
  /\ ureq = [c \in Clients |-> NoRequest]
  /\ uentity = [c \in Clients |-> NoUser]
  /\ uloaded = [c \in Clients |-> NoUser]
  /\ ures = [c \in Clients |-> "none"]
  /\ avatars = {}
  /\ files = {}
  /\ nextId = 1
  /\ apc = [c \in Clients |-> "idle"]
  /\ areq = [c \in Clients |-> NoAvatarRequest]
  /\ ares = [c \in Clients |-> "none"]
  /\ calls = <<>>
  /\ pending = NoError
  /\ failedAt = NoCall
  /\ rejections = <<>>
  /\ snapshot = [p \in Tx |-> NoSnapshot]
  /\ updated = [p \in Tx |-> {}]
  /\ initSum = TotalBalance
  /\ store0 = store

Init == InitWith(TwoAccounts)
InitTransfers == InitWith(AllAccounts)
InitCall == InitWith(SomeAccounts)
\* balances of 0.00, 50.00 and 100.00 and amounts of 0.01, 33.33 and 50.00
ExampleBalances == { 0, 5000 * Cent, 10000 * Cent }
ExampleAmounts == { Cent, 3333 * Cent, 5000 * Cent }
InitExample == InitWith([{<<1>>, <<2>>} -> ExampleBalances])
\* four accounts, each with money to send
FourAccounts == [FourLogins -> {Cent, 2 * Cent}]
InitDisjoint == InitWith(FourAccounts)

\* ------------------------------------------------- BalanceService.transfer
\* The call enters the @Transactional wrapper, which opens a transaction
\* on the store (START TRANSACTION) before the method body runs.  If that
\* rejects, so does the call, and the body never reads its argument.
\* Otherwise the body runs to its first await:
\* the self-transfer guard throws (the wrapper rolls the empty transaction
\* back), or the logins are sorted and the first locking read is issued.
Transfer_Call(p, from, to, amount) ==
  /\ pc[p] = "idle"
  /\ \A q \in Tx : q < p => pc[q] # "idle"   \* calls are numbered as they arrive
  /\ \/ /\ pc' = [pc EXCEPT ![p] = "done"]
        /\ outcome' = [outcome EXCEPT ![p] =
                         [kind |-> "StorageError", login |-> <<>>]]
        /\ failure' = [failure EXCEPT ![p] = Failed(BeginError)]
        /\ UNCHANGED <<opened, dto, lookups>>
     \/ /\ opened' = [opened EXCEPT ![p] = TRUE]
        /\ UNCHANGED failure
        /\ dto' = [dto EXCEPT ![p] = [from |-> from, to |-> to, amount |-> amount]]
        /\ IF IsSelfTransfer(from, to)
           THEN /\ pc' = [pc EXCEPT ![p] = "done"]
                /\ outcome' = [outcome EXCEPT ![p] =
                                 [kind |-> "BadRequestSelf", login |-> <<>>]]
                /\ UNCHANGED lookups
           ELSE /\ pc' = [pc EXCEPT ![p] = "read1"]
                /\ lookups' = [lookups EXCEPT ![p] =
                                 <<user1LoginOf([from |-> from, to |-> to])>>]
                /\ UNCHANGED outcome
  /\ UNCHANGED <<store, lock, user1, user2, fromUser, toUser, written,
                 saveCalls, rvars, qvars, hist, svars, nvars, uvars, avars>>

user1Login(p) == user1LoginOf(dto[p])
user2Login(p) == user2LoginOf(dto[p])

\* The error thrown between the two locking reads: the code has no
\* statement there, user1 is looked at only after user2 has been read.
\* (ShortCircuits: a missing first account reported at once)
ShortCircuits(p, u1) ==
  IF ~u1.found THEN [kind |-> "NotFound", login |-> user1Login(p)]
  ELSE NoOutcome
BetweenReads(p, u1) == NoOutcome

\* The first locking read resolves (the row lock is granted, or there is no
\* such row) and the second locking read is issued.
Transfer_Read1(p) ==
  /\ pc[p] = "read1"
  /\ CanLock(p, user1Login(p))
  /\ user1' = [user1 EXCEPT ![p] = GetOne(user1Login(p))]
  /\ LET err == BetweenReads(p, GetOne(user1Login(p)))
     IN IF err.kind # "none"
        THEN /\ outcome' = [outcome EXCEPT ![p] = err]
             /\ pc' = [pc EXCEPT ![p] = "done"]
             /\ lock' = Released(p)
             /\ UNCHANGED lookups
        ELSE /\ lock' = LockedBy(p, user1Login(p))
             /\ lookups' = [lookups EXCEPT ![p] = Append(@, user2Login(p))]
             /\ pc' = [pc EXCEPT ![p] = "read2"]
             /\ UNCHANGED outcome
  /\ UNCHANGED <<store, opened, dto, user2, fromUser, toUser, written,
                 saveCalls, failure, rvars, qvars, hist, svars, nvars, uvars, avars>>

\* const fromUser = user1Login === from ? user1 : user2
\* (AlwaysFirst: the account read first taken for the sender's)
AlwaysFirst(p, u1, u2) == u1
PickFrom(p, u1, u2) == IF user1Login(p) = dto[p].from THEN u1 ELSE u2
\* const toUser = user1Login === to ? user1 : user2
PickTo(p, u1, u2) == IF user1Login(p) = dto[p].to THEN u1 ELSE u2

\* The error the existence and funds checks throw, "none" when they pass.
\* (NamesReceiverFirst: the receiver checked before the sender)
NamesReceiverFirst(p, f, t) ==
  IF ~t.found THEN [kind |-> "NotFound", login |-> dto[p].to]
  ELSE IF ~f.found THEN [kind |-> "NotFound", login |-> dto[p].from]
  ELSE IF InsufficientFunds(f.balance, dto[p].amount)
       THEN [kind |-> "InsufficientFunds", login |-> dto[p].from]
  ELSE NoOutcome
Checks(p, f, t) ==
  IF ~f.found THEN [kind |-> "NotFound", login |-> dto[p].from]
  ELSE IF ~t.found THEN [kind |-> "NotFound", login |-> dto[p].to]
  ELSE IF InsufficientFunds(f.balance, dto[p].amount)
       THEN [kind |-> "InsufficientFunds", login |-> dto[p].from]
  ELSE NoOutcome

\* The committed rows once the wrapper has rolled back a transaction whose
\* save had written the rows `w`: none of its writes is there.
\* (KeepsWrites: a save outside any transaction)
KeepsWrites(p, w) ==
  [l \in DOMAIN store |->
     IF l \in w
     THEN (IF l = fromUser[p].login THEN fromUser[p].balance
           ELSE toUser[p].balance)
     ELSE store[l]]
AfterRollback(p, w) == store

\* The committed rows once the wrapper has committed: save([fromUser, toUser])
\* has written both entities.
\* (WritesEveryRow: a save that writes the sender's balance to every row
\* but the receiver's)
WritesEveryRow(p) ==
  [l \in DOMAIN store |->
     IF l = toUser[p].login THEN toUser[p].balance ELSE fromUser[p].balance]
AfterCommit(p) ==
  [l \in DOMAIN store |->
     IF l = fromUser[p].login THEN fromUser[p].balance
     ELSE IF l = toUser[p].login THEN toUser[p].balance
     ELSE store[l]]

\* The batches handed to save: one call, save([fromUser, toUser]).
\* (SavesSeparately: one save per entity)
SavesSeparately(f, t) == << <<f>>, <<t>> >>
SaveBatches(f, t) == << <<f, t>> >>

\* The second locking read resolves; the code runs on to its next await:
\* the existence check and the funds check throw (the wrapper rolls back),
\* or both entities are mutated and save is invoked.
Transfer_Read2(p) ==
  /\ pc[p] = "read2"
  /\ CanLock(p, user2Login(p))
  /\ LET u2 == GetOne(user2Login(p))
         f  == PickFrom(p, user1[p], u2)
         t  == PickTo(p, user1[p], u2)
         err == Checks(p, f, t)
     IN /\ user2' = [user2 EXCEPT ![p] = u2]
        /\ IF err.kind # "none"
           THEN /\ outcome' = [outcome EXCEPT ![p] = err]
                /\ pc' = [pc EXCEPT ![p] = "done"]
                /\ store' = AfterRollback(p, {})
                /\ lock' = Released(p)
                /\ UNCHANGED <<fromUser, toUser, saveCalls>>
           ELSE /\ \E nf \in DebitedBalances(f.balance, dto[p].amount),
                      nt \in CreditedBalances(t.balance, dto[p].amount) :
                     /\ fromUser' = [fromUser EXCEPT ![p] = [f EXCEPT !.balance = nf]]
                     /\ toUser' = [toUser EXCEPT ![p] = [t EXCEPT !.balance = nt]]
                /\ saveCalls' = [saveCalls EXCEPT ![p] = @ + Len(SaveBatches(f, t))]
                /\ pc' = [pc EXCEPT ![p] = "save"]
                /\ lock' = LockedBy(p, user2Login(p))
                /\ UNCHANGED <<store, outcome>>
  /\ UNCHANGED <<opened, dto, user1, written, lookups, failure, rvars, qvars,
                 hist, svars, nvars, uvars, avars>>

\* save([fromUser, toUser]) resolves, having updated both rows inside the
\* open transaction; the method returns, the wrapper commits and the row
\* locks are released.
Transfer_Commit(p) ==
  /\ pc[p] = "save"
  /\ written' = [written EXCEPT ![p] = {fromUser[p].login, toUser[p].login}]
  /\ store' = AfterCommit(p)
  /\ lock' = Released(p)
  /\ outcome' = [outcome EXCEPT ![p] = [kind |-> "ok", login |-> <<>>]]
  /\ pc' = [pc EXCEPT ![p] = "done"]
  /\ UNCHANGED <<opened, dto, user1, user2, fromUser, toUser, lookups,
                 saveCalls, failure, rvars, qvars, hist, svars, nvars, uvars, avars>>

\* The rows a save that rejects may have updated before it did.
RowsWrittenBeforeError(p) ==
  IF pc[p] = "save" THEN SUBSET {fromUser[p].login, toUser[p].login} ELSE {{}}

\* A storage operation rejects (connection loss, lock-wait timeout, deadlock
\* detected; a save possibly after part of its updates): the error leaves
\* the method and the wrapper rolls the transaction back.
Transfer_StorageError(p, error) ==
  /\ pc[p] \in {"read1", "read2", "save"}
  /\ failure' = [failure EXCEPT ![p] = Failed(error)]
  /\ \E w \in RowsWrittenBeforeError(p) :
       /\ written' = [written EXCEPT ![p] = w]
       /\ store' = AfterRollback(p, w)
  /\ lock' = Released(p)
  /\ outcome' = [outcome EXCEPT ![p] = [kind |-> "StorageError", login |-> <<>>]]
  /\ pc' = [pc EXCEPT ![p] = "done"]
  /\ UNCHANGED <<opened, dto, user1, user2, fromUser, toUser, lookups,
                 saveCalls, rvars, qvars, hist, svars, nvars, uvars, avars>>

\* return { fromUser, toUser, transferredAmount: amount }
TransferResult(p) ==
  [fromUser |-> fromUser[p], toUser |-> toUser[p],
   transferredAmount |-> dto[p].amount]

\* The caller has its result; the request is over and its objects are gone.
Transfer_Return(p) ==
  /\ pc[p] = "done"
  /\ pc' = [pc EXCEPT ![p] = "returned"]
  /\ opened' = [opened EXCEPT ![p] = FALSE]
  /\ dto' = [dto EXCEPT ![p] = NoDto]
  /\ user1' = [user1 EXCEPT ![p] = Null]
  /\ user2' = [user2 EXCEPT ![p] = Null]
  /\ fromUser' = [fromUser EXCEPT ![p] = Null]
  /\ toUser' = [toUser EXCEPT ![p] = Null]
  /\ written' = [written EXCEPT ![p] = {}]
  /\ outcome' = [outcome EXCEPT ![p] = NoOutcome]
  /\ lookups' = [lookups EXCEPT ![p] = <<>>]
  /\ saveCalls' = [saveCalls EXCEPT ![p] = 0]
  /\ failure' = [failure EXCEPT ![p] = NoFailure]
  /\ UNCHANGED <<store, lock, rvars, qvars, hist, svars, nvars, uvars, avars>>

\* ----------------------------------------------- the balance-reset job
StartEntry ==
  [level |-> "log", message |-> "Starting reset balances job...",
   error |-> NoError]
SuccessEntry ==
  [level |-> "log", message |-> "Successfully reset all user balances",
   error |-> NoError]
ErrorEntry(error) ==
  [level |-> "error", message |-> "Error resetting balances:", error |-> error]

\* this.logger.log('Starting reset balances job...')
\* (LogsSuccessToo: the success logged without awaiting resetBalance())
LogsSuccessToo(entries) == Append(Append(entries, StartEntry), SuccessEntry)
LogStart(entries) == Append(entries, StartEntry)
\* this.logger.log('Successfully reset all user balances')
LogSuccess(entries) == Append(entries, SuccessEntry)
\* this.logger.error('Error resetting balances:', error)
\* (LogsNothing: the catch block without its log statement)
LogsNothing(entries, error) == entries
LogError(entries, error) == Append(entries, ErrorEntry(error))
\* throw error  (Wrapped: a new error thrown in place of the caught one)
Wrapped(error) == "reset failed"
Rethrown(error) == error

\* @InjectQueue('reset-balance'): the queue resetAllBalances adds jobs to
ServiceQueue == "reset-balance"
\* @Processor('reset-balance'): the queue whose jobs the worker takes
\* (OtherQueue: a processor registered under another name)
OtherQueue == "reset-balances"
ProcessorQueue == "reset-balance"

\* The worker of queue 'reset-balance' takes the oldest waiting job and
\* runs process() for it (one job at a time): process() logs the start and
\* calls resetBalance(), whose wrapper opens the transaction; the UPDATE
\* statement is issued.
Reset_Begin(j) ==
  /\ rpc = "idle"
  /\ \/ j = NoJob /\ UNCHANGED <<waiting, jobs>>
     \/ /\ ProcessorQueue = ServiceQueue
        /\ waiting # <<>> /\ j = Head(waiting)
        /\ waiting' = Tail(waiting)
        /\ jobs' = [jobs EXCEPT ![j].state = "active", ![j].runs = @ + 1]
  /\ active' = j
  /\ log' = LogStart(log)
  /\ rpc' = "update"
  /\ UNCHANGED <<store, lock, tvars, rdone, caught, rejected, spc, reply, hist, svars, nvars, uvars, avars>>

\* The rows the UPDATE has still to lock and write.
\* (NoRowLocks: an UPDATE that writes without taking row locks)
NoRowLocks == {}
RowsToLock == DOMAIN store \ rdone

\* UPDATE "user" SET balance = 0 reaches one more row, in the order of the
\* scan: it takes the row's lock (waiting while another transaction holds
\* it) and writes the row.
Reset_UpdateRow(l) ==
  /\ rpc = "update"
  /\ l \in RowsToLock
  /\ CanLock(Reset, l)
  /\ lock' = LockedBy(Reset, l)
  /\ rdone' = rdone \cup {l}
  /\ UNCHANGED <<store, tvars, rpc, log, caught, rejected, qvars, hist, svars, nvars, uvars, avars>>

\* .set({ balance: 0 })
\* (KeepsBalance: the statement leaves the column alone;
\*  TakesACent: the statement lowers each positive balance by a cent)
KeepsBalance(old) == old
TakesACent(old) == IF old > 0 THEN old - Cent ELSE 0
ResetValue(old) == 0

\* The statement has written every row; the wrapper commits, resetBalance()
\* resolves and process() logs the success.
Reset_Commit ==
  /\ rpc = "update"
  /\ RowsToLock = {}
  /\ store' = [l \in DOMAIN store |-> ResetValue(store[l])]
  /\ lock' = Released(Reset)
  /\ log' = LogSuccess(log)
  /\ rpc' = "committed"
  /\ UNCHANGED <<tvars, rdone, caught, rejected, qvars, hist, svars, nvars, uvars, avars>>

\* The statement or the commit rejects: the wrapper rolls back and
\* resetBalance() rejects; process() catches the error, logs it and throws it.
Reset_StorageError(error) ==
  /\ rpc = "update"
  /\ lock' = Released(Reset)
  /\ caught' = error
  /\ log' = LogError(log, error)
  /\ rejected' = Rethrown(error)
  /\ rpc' = "failed"
  /\ UNCHANGED <<store, tvars, rdone, qvars, hist, svars, nvars, uvars, avars>>

\* process() has resolved or rejected: the worker marks the job completed
\* or failed (a job is attempted once) and is free for the next one.
Reset_Return ==
  /\ rpc \in {"committed", "failed"}
  /\ rpc' = "idle"
  /\ rdone' = {}
  /\ log' = <<>>
  /\ caught' = NoError
  /\ rejected' = NoError
  /\ jobs' = IF active = NoJob THEN jobs
             ELSE [jobs EXCEPT ![active].state =
                     IF rpc = "committed" THEN "completed" ELSE "failed"]
  /\ active' = NoJob
  /\ UNCHANGED <<store, lock, tvars, spc, reply, waiting, hist, svars, nvars, uvars, avars>>

\* ------------------- the balance-reset job, query-runner variant of process()
\* The catch block's storage call: await queryRunner.rollbackTransaction()
\* (CommitInCatch: the catch block committing what was done so far)
CommitInCatch == "commitTransaction"
RollbackCall == "rollbackTransaction"

\* The awaited calls before the try statement and those inside it.
\* (WholeBodyInTry: the try statement opened before connect())
OutsideTry == {"connect", "startTransaction"}
WholeBodyInTry == {"connect", "startTransaction", "execute", "commitTransaction"}
InsideTry == {"execute", "commitTransaction"}

\* The error process() rejects with when release() rejects in the finally
\* block: the finally block's error replaces the pending completion.
\* (KeepsPending: the error already on its way out is kept)
KeepsPending(pendingError, error) ==
  IF pendingError # NoError THEN pendingError ELSE error
ReleaseError(pendingError, error) == error

\* process() logs the start, creates the query runner and calls connect().
Runner_Begin ==
  /\ rpc = "idle"
  /\ log' = LogStart(log)
  /\ calls' = <<"connect">>
  /\ rpc' = "connect"
  /\ UNCHANGED <<store, lock, tvars, rdone, caught, rejected, qvars, hist, svars, uvars, avars, rejections,
                 pending, failedAt>>

\* connect() resolves; startTransaction() is called.
Runner_Connected ==
  /\ rpc = "connect"
  /\ calls' = Append(calls, "startTransaction")
  /\ rpc' = "startTransaction"
  /\ UNCHANGED <<store, lock, tvars, rdone, log, caught, rejected, qvars, hist, svars, uvars, avars, rejections,
                 pending, failedAt>>

\* startTransaction() resolves; inside try, the UPDATE is executed.
Runner_Started ==
  /\ rpc = "startTransaction"
  /\ calls' = Append(calls, "execute")
  /\ rpc' = "execute"
  /\ UNCHANGED <<store, lock, tvars, rdone, log, caught, rejected, qvars, hist, svars, uvars, avars, rejections,
                 pending, failedAt>>

\* connect() or startTransaction() rejects: both are outside the try
\* statement, so process() rejects with that error there and then.
Runner_Fail(error) ==
  /\ rpc \in OutsideTry
  /\ failedAt' = rpc
  /\ rejected' = error
  /\ rpc' = "failed"
  /\ rejections' = Append(rejections, [call |-> rpc, error |-> error])
  /\ UNCHANGED <<store, lock, tvars, rdone, log, caught, qvars, hist, svars, uvars, avars, calls,
                 pending>>

\* execute() resolves, every row locked and written inside the
\* transaction; commitTransaction() is called.
Runner_Executed ==
  /\ rpc = "execute"
  /\ \A l \in DOMAIN store : CanLock(Reset, l)
  /\ lock' = [l \in DOMAIN lock |-> IF l \in DOMAIN store THEN Reset ELSE lock[l]]
  /\ rdone' = DOMAIN store
  /\ calls' = Append(calls, "commitTransaction")
  /\ rpc' = "commitTransaction"
  /\ UNCHANGED <<store, tvars, log, caught, rejected, qvars, hist, svars, uvars, avars, rejections, pending,
                 failedAt>>

\* commitTransaction() resolves; the success is logged; the finally block
\* calls release().
Runner_Committed ==
  /\ rpc = "commitTransaction"
  /\ store' = [l \in DOMAIN store |-> ResetValue(store[l])]
  /\ lock' = Released(Reset)
  /\ log' = LogSuccess(log)
  /\ calls' = Append(calls, "release")
  /\ rpc' = "release"
  /\ UNCHANGED <<tvars, rdone, caught, rejected, qvars, hist, svars, uvars, avars, rejections, pending, failedAt>>

\* execute() or commitTransaction() rejects (a commit that rejects has not
\* committed): the catch block logs the error and calls
\* rollbackTransaction().
Runner_Catch(error) ==
  /\ rpc \in InsideTry
  /\ failedAt' = rpc
  /\ caught' = error
  /\ log' = LogError(log, error)
  /\ calls' = Append(calls, RollbackCall)
  /\ rpc' = "rollbackTransaction"
  /\ rejections' = Append(rejections, [call |-> rpc, error |-> error])
  /\ UNCHANGED <<store, lock, tvars, rdone, rejected, qvars, hist, svars, uvars, avars, pending>>

\* rollbackTransaction() resolves; `throw error` leaves the catch block
\* with the caught error; the finally block calls release().
Runner_RolledBack ==
  /\ rpc = "rollbackTransaction"
  /\ lock' = Released(Reset)
  /\ pending' = Rethrown(caught)
  /\ calls' = Append(calls, "release")
  /\ rpc' = "release"
  /\ UNCHANGED <<store, tvars, rdone, log, caught, rejected, qvars, hist, svars, uvars, avars, rejections,
                 failedAt>>

\* rollbackTransaction() rejects: its error leaves the catch block in
\* place of the caught one (the store ends the broken transaction itself);
\* the finally block calls release().
Runner_RollbackFailed(error) ==
  /\ rpc = "rollbackTransaction"
  /\ lock' = Released(Reset)
  /\ pending' = error
  /\ calls' = Append(calls, "release")
  /\ rpc' = "release"
  /\ rejections' = Append(rejections, [call |-> rpc, error |-> error])
  /\ UNCHANGED <<store, tvars, rdone, log, caught, rejected, qvars, hist, svars, uvars, avars,
                 failedAt>>

\* release() resolves: process() resolves, or rejects with the error that
\* left the try statement.
Runner_Released ==
  /\ rpc = "release"
  /\ rejected' = pending
  /\ rpc' = IF pending = NoError THEN "committed" ELSE "failed"
  /\ UNCHANGED <<store, lock, tvars, rdone, log, caught, qvars, hist, svars, uvars, avars, rejections, calls,
                 pending, failedAt>>

\* release() rejects: its error replaces whatever the try statement was
\* about to complete with.
Runner_ReleaseFailed(error) ==
  /\ rpc = "release"
  /\ rejected' = ReleaseError(pending, error)
  /\ rpc' = "failed"
  /\ rejections' = Append(rejections, [call |-> rpc, error |-> error])
  /\ UNCHANGED <<store, lock, tvars, rdone, log, caught, qvars, hist, svars, uvars, avars, calls,
                 pending, failedAt>>

\* process() has resolved or rejected; the worker is free for the next run.
Runner_Return ==
  /\ rpc \in {"committed", "failed"}
  /\ rpc' = "idle"
  /\ rdone' = {}
  /\ log' = <<>>
  /\ caught' = NoError
  /\ rejected' = NoError
  /\ calls' = <<>>
  /\ pending' = NoError
  /\ failedAt' = NoCall
  /\ rejections' = <<>>
  /\ UNCHANGED <<store, lock, tvars, qvars, hist, svars, uvars, avars>>

\* ------------------------------------ BalanceResetService.resetAllBalances
\* The call logs and issues resetBalanceQueue.add('reset-all-balances', {}).
ResetAll_Call(c) ==
  /\ spc[c] = "idle"
  /\ \A b \in Callers : b < c => spc[b] # "idle"
  /\ spc' = [spc EXCEPT ![c] = "adding"]
  /\ UNCHANGED <<store, lock, tvars, rvars, reply, waiting, active, jobs, hist, svars, nvars, uvars, avars>>

\* the next job's id
NextJobId == Cardinality({ j \in JobIds : jobs[j].state # "none" }) + 1

\* add() resolves: the job is in the queue, waiting, and the call returns
\* the message and the job's id.
Queue_Add(c) ==
  /\ spc[c] = "adding"
  /\ NextJobId \in JobIds
  /\ jobs' = [jobs EXCEPT ![NextJobId] =
               [state |-> "waiting", runs |-> 0, name |-> JobName,
                data |-> EmptyPayload]]
  /\ waiting' = Append(waiting, NextJobId)
  /\ reply' = [reply EXCEPT ![c] =
                 [kind |-> "queued", jobId |-> NextJobId,
                  message |-> QueuedMessage]]
  /\ spc' = [spc EXCEPT ![c] = "done"]
  /\ UNCHANGED <<store, lock, tvars, rvars, active, hist, svars, nvars, uvars, avars>>

\* add() rejects (the queue's store is unreachable): nothing is enqueued and
\* the call rejects with that error.
Queue_AddError(c) ==
  /\ spc[c] = "adding"
  /\ reply' = [reply EXCEPT ![c] = [NoReply EXCEPT !.kind = "QueueError"]]
  /\ spc' = [spc EXCEPT ![c] = "done"]
  /\ UNCHANGED <<store, lock, tvars, rvars, waiting, active, jobs, hist, svars, nvars, uvars, avars>>

\* ------------------------------------------------------- specifications
TransferStepsWith(p, errors) ==
  \/ Transfer_Read1(p)
  \/ Transfer_Read2(p)
  \/ Transfer_Commit(p)
  \/ (\E error \in errors : Transfer_StorageError(p, error))
  \/ Transfer_Return(p)
TransferSteps(p) == TransferStepsWith(p, {"connection lost"})

\* runs of process(), for the jobs `js` and failing with the errors `errors`
ResetSteps(js, errors) ==
  \/ (\E j \in js : Reset_Begin(j))
  \/ (\E l \in Logins : Reset_UpdateRow(l))
  \/ Reset_Commit
  \/ (\E error \in errors : Reset_StorageError(error))
  \/ Reset_Return

ResetAllSteps(c) ==
  \/ ResetAll_Call(c)
  \/ Queue_Add(c)
  \/ Queue_AddError(c)

\* concurrent transfers of validated requests between any logins
NextTransfers ==
  \E p \in Tx :
    \/ \E from \in Logins, to \in Logins, amount \in ValidAmounts :
         Transfer_Call(p, from, to, amount)
    \/ TransferSteps(p)

\* concurrent transfers of validated requests between the accounts of the
\* store, and the reset job
Next ==
  \/ \E p \in Tx :
       \/ \E from \in DOMAIN store, to \in DOMAIN store, amount \in ValidAmounts :
            Transfer_Call(p, from, to, amount)
       \/ TransferSteps(p)
  \/ ResetSteps({NoJob}, {"connection lost"})

\* one call of the service with any arguments, on any store
NextCall ==
  \/ \E from \in Logins, to \in Logins, amount \in AnyAmounts :
       Transfer_Call(1, from, to, amount)
  \/ TransferStepsWith(1, StorageErrors)

\* the logins named by the calls other than p that have not returned
LoginsOfOthers(p) == UNION { {dto[q].from, dto[q].to} : q \in Tx \ {p} }

\* concurrent transfers on disjoint pairs of accounts, each with sufficient
\* funds
NextDisjoint ==
  \E p \in Tx :
    \/ \E from \in FourLogins, to \in FourLogins, amount \in ValidAmounts :
         /\ from # to
         /\ {from, to} \cap LoginsOfOthers(p) = {}
         /\ store[from] >= amount
         /\ Transfer_Call(p, from, to, amount)
    \/ TransferSteps(p)

Spec == Init /\ [][Next]_vars
SpecDisjoint == InitDisjoint /\ [][NextDisjoint]_vars

\* runs of the reset job on any store, no transfer under way
NextJob == ResetSteps({NoJob}, StorageErrors)
SpecJob == InitCall /\ [][NextJob]_vars

\* one call of the service with any arguments, and runs of the reset job
NextResetCall ==
  \/ NextCall
  \/ ResetSteps({NoJob}, {"connection lost"})
SpecResetCall == Init /\ [][NextResetCall]_vars

\* ------------------------------------ UsersService.register and update
\* usersRepository.findOneBy({ login }) and findOneBy({ email }): the row,
\* or null
FindByLogin(login) ==
  IF \E a \in accounts : a.login = login
  THEN CHOOSE a \in accounts : a.login = login
  ELSE NoUser
FindByEmail(email) ==
  IF \E a \in accounts : a.email = email
  THEN CHOOSE a \in accounts : a.email = email
  ELSE NoUser

\* @PrimaryColumn() login: an INSERT of a login that has a row is rejected
ViolatesPrimaryKey(row) == \E a \in accounts : a.login = row.login
\* @Column({ unique: true }) email: a write that would give a second row
\* the same email is rejected
ViolatesUniqueEmail(row) ==
  \E a \in accounts : a.email = row.email /\ a.login # row.login

\* register(dto) issues findOneBy({ login }).
Register_Call(c, login, email) ==
  /\ upc[c] = "idle"
  /\ ureq' = [ureq EXCEPT ![c] = [kind |-> "register", login |-> login,
                                  email |-> email]]
  /\ upc' = [upc EXCEPT ![c] = "findLogin"]
  /\ UNCHANGED <<store, lock, tvars, rvars, qvars, hist, svars, nvars, avars, accounts, uentity,
                 uloaded, ures>>

\* The lookup by login resolves: Conflict when it found a row, else
\* findOneBy({ email }) is issued.
Register_ByLogin(c) ==
  /\ upc[c] = "findLogin"
  /\ IF FindByLogin(ureq[c].login) # NoUser
     THEN /\ ures' = [ures EXCEPT ![c] = "Conflict"]
          /\ upc' = [upc EXCEPT ![c] = "done"]
     ELSE /\ upc' = [upc EXCEPT ![c] = "findEmail"]
          /\ UNCHANGED ures
  /\ UNCHANGED <<store, lock, tvars, rvars, qvars, hist, svars, nvars, avars, accounts, ureq,
                 uentity, uloaded>>

\* The lookup by email resolves: Conflict when it found a row, else the
\* password is hashed, the entity is created and save(user) is called.
Register_ByEmail(c) ==
  /\ upc[c] = "findEmail"
  /\ IF FindByEmail(ureq[c].email) # NoUser
     THEN /\ ures' = [ures EXCEPT ![c] = "Conflict"]
          /\ upc' = [upc EXCEPT ![c] = "done"]
          /\ UNCHANGED uentity
     ELSE /\ uentity' = [uentity EXCEPT ![c] =
                           [login |-> ureq[c].login, email |-> ureq[c].email,
                            password |-> c]]
          /\ upc' = [upc EXCEPT ![c] = "saveLoad"]
          /\ UNCHANGED ures
  /\ UNCHANGED <<store, lock, tvars, rvars, qvars, hist, svars, nvars, avars, accounts, ureq,
                 uloaded>>

\* update(currentLogin, updates) issues findOne({ where: { login } }).
Update_Call(c, login, email) ==
  /\ upc[c] = "idle"
  /\ ureq' = [ureq EXCEPT ![c] = [kind |-> "update", login |-> login,
                                  email |-> email]]
  /\ upc' = [upc EXCEPT ![c] = "findUser"]
  /\ UNCHANGED <<store, lock, tvars, rvars, qvars, hist, svars, nvars, avars, accounts, uentity,
                 uloaded, ures>>

\* The lookup resolves: NotFound when there is no such row; when the
\* update names an email other than the row's, the lookup by that email is
\* issued; else save(user) is called.
Update_Found(c) ==
  /\ upc[c] = "findUser"
  /\ LET user == FindByLogin(ureq[c].login)
     IN IF user = NoUser
        THEN /\ ures' = [ures EXCEPT ![c] = "NotFound"]
             /\ upc' = [upc EXCEPT ![c] = "done"]
             /\ UNCHANGED uentity
        ELSE /\ uentity' = [uentity EXCEPT ![c] = user]
             /\ upc' = [upc EXCEPT ![c] =
                          IF ureq[c].email # NoEmail /\ ureq[c].email # user.email
                          THEN "findOther" ELSE "saveLoad"]
             /\ UNCHANGED ures
  /\ UNCHANGED <<store, lock, tvars, rvars, qvars, hist, svars, nvars, avars, accounts, ureq,
                 uloaded>>

\* The lookup by the new email resolves: Conflict when it found a row of
\* another login, else user.email is set and save(user) is called.
Update_ByEmail(c) ==
  /\ upc[c] = "findOther"
  /\ LET existingByEmail == FindByEmail(ureq[c].email)
     IN IF existingByEmail # NoUser /\ existingByEmail.login # uentity[c].login
        THEN /\ ures' = [ures EXCEPT ![c] = "Conflict"]
             /\ upc' = [upc EXCEPT ![c] = "done"]
             /\ UNCHANGED uentity
        ELSE /\ uentity' = [uentity EXCEPT ![c].email = ureq[c].email]
             /\ upc' = [upc EXCEPT ![c] = "saveLoad"]
             /\ UNCHANGED ures
  /\ UNCHANGED <<store, lock, tvars, rvars, qvars, hist, svars, nvars, avars, accounts, ureq,
                 uloaded>>

\* usersRepository.save(user), first half: the entity has a primary key,
\* so save loads the row of that key to decide between INSERT and UPDATE.
Save_Load(c) ==
  /\ upc[c] = "saveLoad"
  /\ uloaded' = [uloaded EXCEPT ![c] = FindByLogin(uentity[c].login)]
  /\ upc' = [upc EXCEPT ![c] = "saveWrite"]
  /\ UNCHANGED <<store, lock, tvars, rvars, qvars, hist, svars, nvars, avars, accounts, ureq,
                 uentity, ures>>

\* the row an UPDATE by save leaves: the columns in which the entity
\* differs from the loaded row are set
Merged(current, entity, loaded) ==
  [login |-> current.login,
   email |-> IF entity.email # loaded.email THEN entity.email ELSE current.email,
   password |-> IF entity.password # loaded.password THEN entity.password
                ELSE current.password]

\* usersRepository.save(user), second half: INSERT when no row was loaded,
\* else UPDATE of the columns that differ; the store rejects a write that
\* breaks the primary key or the unique email.
Save_Write(c) ==
  /\ upc[c] = "saveWrite"
  /\ LET row == IF uloaded[c] = NoUser THEN uentity[c]
                ELSE Merged(FindByLogin(uentity[c].login), uentity[c], uloaded[c])
         rejects == \/ uloaded[c] = NoUser /\ ViolatesPrimaryKey(row)
                    \/ ViolatesUniqueEmail(row)
     IN IF rejects
        THEN /\ ures' = [ures EXCEPT ![c] = "StorageError"]
             /\ UNCHANGED accounts
        ELSE /\ ures' = [ures EXCEPT ![c] = "ok"]
             /\ accounts' = { a \in accounts : a.login # row.login } \cup {row}
  /\ upc' = [upc EXCEPT ![c] = "done"]
  /\ UNCHANGED <<store, lock, tvars, rvars, qvars, hist, svars, nvars, avars, ureq, uentity,
                 uloaded>>

\* The caller has its result.
User_Return(c) ==
  /\ upc[c] = "done"
  /\ upc' = [upc EXCEPT ![c] = "idle"]
  /\ ureq' = [ureq EXCEPT ![c] = NoRequest]
  /\ uentity' = [uentity EXCEPT ![c] = NoUser]
  /\ uloaded' = [uloaded EXCEPT ![c] = NoUser]
  /\ ures' = [ures EXCEPT ![c] = "none"]
  /\ UNCHANGED <<store, lock, tvars, rvars, qvars, hist, svars, nvars, avars, accounts>>

UserSteps(c) ==
  \/ \E login \in UserLogins, email \in Emails : Register_Call(c, login, email)
  \/ Register_ByLogin(c)
  \/ Register_ByEmail(c)
  \/ \E login \in UserLogins, email \in Emails \cup {NoEmail} :
       Update_Call(c, login, email)
  \/ Update_Found(c)
  \/ Update_ByEmail(c)
  \/ Save_Load(c)
  \/ Save_Write(c)
  \/ User_Return(c)

\* calls of register and update by concurrent callers, on an empty user
\* table (the balance column plays no part in them and is left out)
InitUsers == InitWith({ [l \in {} |-> 0] })
NextUsers == \E c \in Clients : UserSteps(c)
SpecUsers == InitUsers /\ [][NextUsers]_vars
\* the same calls, one at a time
NextUsersInTurn ==
  \E c \in Clients :
    /\ \A d \in Clients \ {c} : upc[d] = "idle"
    /\ UserSteps(c)
SpecUsersInTurn == InitUsers /\ [][NextUsersInTurn]_vars

\* ------------------------- UsersService.uploadAvatar and deleteAvatar
\* uploadAvatar(login, file) issues findOne({ where: { login },
\* relations: ['avatars'] }).
Upload_Call(c, login) ==
  /\ apc[c] = "idle"
  /\ nextId <= MaxUploads
  /\ areq' = [areq EXCEPT ![c] = [kind |-> "upload", login |-> login,
                                  id |-> NoAvatar]]
  /\ apc' = [apc EXCEPT ![c] = "findUser"]
  /\ UNCHANGED <<store, lock, tvars, rvars, qvars, hist, svars, nvars, uvars, avatars, files,
                 nextId, ares>>

\* The lookup resolves with the user and its avatars as they are now:
\* NotFound when there is no such user, BadRequest when the avatars are
\* over the limit; else a file name is chosen and uploadFile is called.
Upload_Found(c) ==
  /\ apc[c] = "findUser"
  /\ areq[c].kind = "upload"
  /\ IF areq[c].login # AvatarOwner
     THEN /\ ares' = [ares EXCEPT ![c] = "NotFound"]
          /\ apc' = [apc EXCEPT ![c] = "done"]
          /\ UNCHANGED <<areq, nextId>>
     ELSE IF OverLimit(Cardinality(avatars))
     THEN /\ ares' = [ares EXCEPT ![c] = "BadRequestLimit"]
          /\ apc' = [apc EXCEPT ![c] = "done"]
          /\ UNCHANGED <<areq, nextId>>
     ELSE /\ areq' = [areq EXCEPT ![c].id = nextId]
          /\ nextId' = nextId + 1
          /\ apc' = [apc EXCEPT ![c] = "uploadFile"]
          /\ UNCHANGED ares
  /\ UNCHANGED <<store, lock, tvars, rvars, qvars, hist, svars, nvars, uvars, avatars, files>>

\* uploadFile resolves, the file stored; the avatar is created and
\* avatarsRepository.save(avatar) is called.
Upload_Stored(c) ==
  /\ apc[c] = "uploadFile"
  /\ files' = files \cup {areq[c].id}
  /\ apc' = [apc EXCEPT ![c] = "save"]
  /\ UNCHANGED <<store, lock, tvars, rvars, qvars, hist, svars, nvars, uvars, avatars, nextId,
                 areq, ares>>

\* uploadFile rejects: the catch block throws BadRequest.
Upload_Failed(c) ==
  /\ apc[c] = "uploadFile"
  /\ ares' = [ares EXCEPT ![c] = "BadRequestUpload"]
  /\ apc' = [apc EXCEPT ![c] = "done"]
  /\ UNCHANGED <<store, lock, tvars, rvars, qvars, hist, svars, nvars, uvars, avatars, files,
                 nextId, areq>>

\* save resolves: the avatar row is stored.
Upload_Saved(c) ==
  /\ apc[c] = "save"
  /\ avatars' = avatars \cup {areq[c].id}
  /\ ares' = [ares EXCEPT ![c] = "ok"]
  /\ apc' = [apc EXCEPT ![c] = "done"]
  /\ UNCHANGED <<store, lock, tvars, rvars, qvars, hist, svars, nvars, uvars, files, nextId,
                 areq>>

\* deleteAvatar(login, avatarId) issues findOne({ where: { id } }).
Delete_Call(c, login, id) ==
  /\ apc[c] = "idle"
  /\ areq' = [areq EXCEPT ![c] = [kind |-> "delete", login |-> login, id |-> id]]
  /\ apc' = [apc EXCEPT ![c] = "findAvatar"]
  /\ UNCHANGED <<store, lock, tvars, rvars, qvars, hist, svars, nvars, uvars, avatars, files,
                 nextId, ares>>

\* The lookup resolves: NotFound when there is no such avatar, Forbidden
\* when it is another user's; else removeFile is called.
Delete_Found(c) ==
  /\ apc[c] = "findAvatar"
  /\ IF areq[c].id \notin avatars
     THEN /\ ares' = [ares EXCEPT ![c] = "NotFound"]
          /\ apc' = [apc EXCEPT ![c] = "done"]
     ELSE IF areq[c].login # AvatarOwner
     THEN /\ ares' = [ares EXCEPT ![c] = "Forbidden"]
          /\ apc' = [apc EXCEPT ![c] = "done"]
     ELSE /\ apc' = [apc EXCEPT ![c] = "removeFile"]
          /\ UNCHANGED ares
  /\ UNCHANGED <<store, lock, tvars, rvars, qvars, hist, svars, nvars, uvars, avatars, files,
                 nextId, areq>>

\* removeFile resolves; avatarsRepository.remove(avatar) is called.
Delete_FileRemoved(c) ==
  /\ apc[c] = "removeFile"
  /\ files' = files \ {areq[c].id}
  /\ apc' = [apc EXCEPT ![c] = "remove"]
  /\ UNCHANGED <<store, lock, tvars, rvars, qvars, hist, svars, nvars, uvars, avatars, nextId,
                 areq, ares>>

\* remove resolves: the avatar row is gone.
Delete_Removed(c) ==
  /\ apc[c] = "remove"
  /\ avatars' = avatars \ {areq[c].id}
  /\ ares' = [ares EXCEPT ![c] = "ok"]
  /\ apc' = [apc EXCEPT ![c] = "done"]
  /\ UNCHANGED <<store, lock, tvars, rvars, qvars, hist, svars, nvars, uvars, files, nextId,
                 areq>>

\* The caller has its result.
Avatar_Return(c) ==
  /\ apc[c] = "done"
  /\ apc' = [apc EXCEPT ![c] = "idle"]
  /\ areq' = [areq EXCEPT ![c] = NoAvatarRequest]
  /\ ares' = [ares EXCEPT ![c] = "none"]
  /\ UNCHANGED <<store, lock, tvars, rvars, qvars, hist, svars, nvars, uvars, avatars, files,
                 nextId>>

AvatarSteps(c) ==
  \/ \E login \in UserLogins : Upload_Call(c, login)
  \/ Upload_Found(c)
  \/ Upload_Stored(c)
  \/ Upload_Failed(c)
  \/ Upload_Saved(c)
  \/ \E login \in UserLogins, id \in AvatarIds : Delete_Call(c, login, id)
  \/ Delete_Found(c)
  \/ Delete_FileRemoved(c)
  \/ Delete_Removed(c)
  \/ Avatar_Return(c)

\* calls of uploadAvatar and deleteAvatar, one at a time
NextAvatars ==
  \E c \in Clients :
    /\ \A d \in Clients \ {c} : apc[d] = "idle"
    /\ AvatarSteps(c)
SpecAvatars == InitUsers /\ [][NextAvatars]_vars

\* runs of the query-runner variant of process(), failing with `errors`
RunnerSteps(errors) ==
  \/ Runner_Begin
  \/ Runner_Connected
  \/ Runner_Started
  \/ (\E error \in errors : Runner_Fail(error))
  \/ Runner_Executed
  \/ Runner_Committed
  \/ (\E error \in errors : Runner_Catch(error))
  \/ Runner_RolledBack
  \/ (\E error \in errors : Runner_RollbackFailed(error))
  \/ Runner_Released
  \/ (\E error \in errors : Runner_ReleaseFailed(error))
  \/ Runner_Return
NextRunner == RunnerSteps(StorageErrors)
SpecRunner == InitCall /\ [][NextRunner]_vars

\* requests to reset, the queue and its worker
NextQueue ==
  \/ (\E c \in Callers : ResetAllSteps(c))
  \/ ResetSteps(JobIds, StorageErrors)
SpecQueue == Init /\ [][NextQueue]_vars

\* the worker is scheduled fairly: it takes a waiting job when it is free,
\* and the statement, the commit and the end of process() are not put off
\* for ever (the store may still fail the statement)
WorkerFairness ==
  /\ WF_vars(\E j \in JobIds : Reset_Begin(j))
  /\ WF_vars(\E l \in Logins : Reset_UpdateRow(l))
  /\ WF_vars(Reset_Commit)
  /\ WF_vars(Reset_Return)
SpecQueueFair == SpecQueue /\ WorkerFairness
SpecTransfers == InitTransfers /\ [][NextTransfers]_vars
\* one call moving two-decimal amounts between two-decimal balances
NextExample ==
  \/ \E from \in {<<1>>, <<2>>}, to \in {<<1>>, <<2>>}, amount \in ExampleAmounts :
       Transfer_Call(1, from, to, amount)
  \/ TransferStepsWith(1, StorageErrors)
SpecExample == InitExample /\ [][NextExample]_vars
\* concurrent transfers of validated requests between any logins, one of
\* which has no account
SpecMissing == Init /\ [][NextTransfers]_vars
\* the store answers every statement it can answer: a locking read whose
\* row is free, or stays free, is granted, and a save is carried out and
\* committed (it may still reject any of them)
StoreFairness ==
  \A p \in Tx :
    /\ WF_vars(Transfer_Read1(p))
    /\ WF_vars(Transfer_Read2(p))
    /\ WF_vars(Transfer_Commit(p))
SpecMissingFair == SpecMissing /\ StoreFairness
SpecCall == InitCall /\ [][NextCall]_vars

\* ------------------------------------------------ UserRepository.transfer
\* @Transactional({ isolationLevel: IsolationLevel.REPEATABLE_READ })
RepositoryIsolation == "REPEATABLE READ"

\* The error PostgreSQL raises for an UPDATE, in a repeatable-read
\* transaction, of a row that a transaction committed after the snapshot
\* has updated.
SerializationFailure == "could not serialize access due to concurrent update"
DeadlockDetected == "deadlock detected"

\* this.repository.findOne({ where: { login }, relations }): a plain SELECT,
\* which takes no row lock and never waits; in a repeatable-read
\* transaction it returns the row of the transaction's snapshot.
FindOne(rows, login) ==
  IF login \in DOMAIN rows
  THEN [found |-> TRUE, login |-> login, balance |-> rows[login]]
  ELSE Null

\* The snapshot of a repeatable-read transaction: the rows committed when
\* its first query runs.
TakenSnapshot == [taken |-> TRUE, rows |-> store]

\* The entities handed to save, in the order of the array:
\* save([fromUser, toUser])
SaveOrder(p) == <<fromUser[p], toUser[p]>>

\* save() loads the rows of its entities by primary key (a read of the
\* snapshot) and issues an UPDATE for an entity only when a column of it
\* differs from the loaded row.
MustBeUpdated(p, e) == e.balance # snapshot[p].rows[e.login]

\* Whether an UPDATE of the row by call p fails: the row has been updated by
\* a transaction that committed after p's snapshot was taken.
\* (OverwritesConcurrent: the UPDATE of a read-committed transaction, which
\* carries on with the latest row)
OverwritesConcurrent(p, login) == FALSE
ConcurrentUpdate(p, login) == login \in updated[p]

\* The rows of call p's transaction once they are committed: for each row
\* the last UPDATE of it that save issued.
RepositoryCommit(p) ==
  [l \in DOMAIN store |->
     IF l \in written[p] /\ l = toUser[p].login THEN toUser[p].balance
     ELSE IF l \in written[p] /\ l = fromUser[p].login THEN fromUser[p].balance
     ELSE store[l]]

\* The calls whose snapshot predates a commit made now: those that have run
\* their first query and have not ended.
Overlapping(p) ==
  { q \in Tx \ {p} : snapshot[q].taken /\ pc[q] \in {"find2", "update1", "update2", "commit"} }

\* The wrapper opens a transaction (START TRANSACTION, then SET TRANSACTION
\* ISOLATION LEVEL REPEATABLE READ) and the body runs to its first await:
\* findByLogin({ login: from }).  There is no guard on from === to.
Repository_Call(p, from, to, amount) ==
  /\ pc[p] = "idle"
  /\ \A q \in Tx : q < p => pc[q] # "idle"
  /\ opened' = [opened EXCEPT ![p] = TRUE]
  /\ dto' = [dto EXCEPT ![p] = [from |-> from, to |-> to, amount |-> amount]]
  /\ lookups' = [lookups EXCEPT ![p] = <<from>>]
  /\ pc' = [pc EXCEPT ![p] = "find1"]
  /\ UNCHANGED <<store, lock, user1, user2, fromUser, toUser, written,
                 outcome, saveCalls, failure, rvars, qvars, hist, svars,
                 nvars, uvars, avars>>

\* The first query of the transaction runs: its snapshot is taken, the
\* sender's row is read from it, and findByLogin({ login: to }) is issued.
Repository_Find1(p) ==
  /\ pc[p] = "find1"
  /\ snapshot' = [snapshot EXCEPT ![p] = TakenSnapshot]
  /\ updated' = [updated EXCEPT ![p] = {}]
  /\ user1' = [user1 EXCEPT ![p] = FindOne(store, dto[p].from)]
  /\ lookups' = [lookups EXCEPT ![p] = Append(@, dto[p].to)]
  /\ pc' = [pc EXCEPT ![p] = "find2"]
  /\ UNCHANGED <<store, lock, opened, dto, user2, fromUser, toUser, written,
                 outcome, saveCalls, failure, rvars, qvars, hist, nvars,
                 uvars, avars>>

\* The receiver's row is read from the snapshot; the code runs on to its
\* next await: a check throws (the wrapper rolls back), or both entities are
\* mutated and save([fromUser, toUser]) is invoked.
Repository_Find2(p) ==
  /\ pc[p] = "find2"
  /\ LET f == user1[p]
         t == FindOne(snapshot[p].rows, dto[p].to)
         err == Checks(p, f, t)
     IN /\ user2' = [user2 EXCEPT ![p] = t]
        /\ IF err.kind # "none"
           THEN /\ outcome' = [outcome EXCEPT ![p] = err]
                /\ pc' = [pc EXCEPT ![p] = "done"]
                /\ UNCHANGED <<fromUser, toUser, saveCalls>>
           ELSE /\ \E nf \in DebitedBalances(f.balance, dto[p].amount),
                      nt \in CreditedBalances(t.balance, dto[p].amount) :
                     /\ fromUser' = [fromUser EXCEPT ![p] = [f EXCEPT !.balance = nf]]
                     /\ toUser' = [toUser EXCEPT ![p] = [t EXCEPT !.balance = nt]]
                /\ saveCalls' = [saveCalls EXCEPT ![p] = @ + 1]
                /\ pc' = [pc EXCEPT ![p] = "update1"]
                /\ UNCHANGED outcome
  /\ UNCHANGED <<store, lock, opened, dto, user1, written, lookups, failure,
                 rvars, qvars, hist, svars, nvars, uvars, avars>>

\* where save stands: the entity whose UPDATE is next, and the step after it
SaveIndex(p) == IF pc[p] = "update1" THEN 1 ELSE 2
AfterUpdate(p) == IF pc[p] = "update1" THEN "update2" ELSE "commit"
NextEntity(p) == SaveOrder(p)[SaveIndex(p)]

\* call p is in save and its next UPDATE waits for the row lock of `q`
WaitsForRow(p, q) ==
  /\ pc[p] \in {"update1", "update2"}
  /\ MustBeUpdated(p, NextEntity(p))
  /\ lock[NextEntity(p).login] = q
  /\ q # p

\* The transaction is rolled back by the wrapper after `error`: its
\* updates are discarded, its row locks released and the call rejects.
Repository_Rollback(p, error) ==
  /\ store' = AfterRollback(p, written[p])
  /\ lock' = Released(p)
  /\ failure' = [failure EXCEPT ![p] = Failed(error)]
  /\ outcome' = [outcome EXCEPT ![p] = [kind |-> "StorageError", login |-> <<>>]]
  /\ pc' = [pc EXCEPT ![p] = "done"]
  /\ UNCHANGED <<opened, dto, user1, user2, fromUser, toUser, written,
                 lookups, saveCalls, rvars, qvars, hist, svars, nvars, uvars,
                 avars>>

\* save issues the UPDATE of its next entity, or none when the entity equals
\* the loaded row.  The UPDATE waits while another transaction holds the
\* row's lock; then it fails when the row was updated since the snapshot,
\* or takes the lock and writes the row inside the transaction.
Repository_Update(p) ==
  /\ pc[p] \in {"update1", "update2"}
  /\ LET e == NextEntity(p)
     IN IF ~MustBeUpdated(p, e)
        THEN /\ pc' = [pc EXCEPT ![p] = AfterUpdate(p)]
             /\ UNCHANGED <<store, lock, written, outcome, failure>>
        ELSE /\ lock[e.login] \in {NoOwner, p}
             /\ IF ConcurrentUpdate(p, e.login)
                THEN Repository_Rollback(p, SerializationFailure)
                ELSE /\ lock' = LockedBy(p, e.login)
                     /\ written' = [written EXCEPT ![p] = @ \cup {e.login}]
                     /\ pc' = [pc EXCEPT ![p] = AfterUpdate(p)]
                     /\ UNCHANGED <<store, outcome, failure>>
  /\ UNCHANGED <<opened, dto, user1, user2, fromUser, toUser, lookups,
                 saveCalls, rvars, qvars, hist, svars, nvars, uvars, avars>>

\* Two calls wait for each other's row lock: the store detects the
\* deadlock and fails the UPDATE of one of them.
Repository_Deadlock(p) ==
  /\ \E q \in Tx : WaitsForRow(p, q) /\ WaitsForRow(q, p)
  /\ Repository_Rollback(p, DeadlockDetected)

\* save resolves, the method returns and the wrapper commits: the updates
\* become the committed rows, the row locks are released, and the rows are
\* updated since the snapshot of every transaction still open.
Repository_Commit(p) ==
  /\ pc[p] = "commit"
  /\ store' = RepositoryCommit(p)
  /\ lock' = Released(p)
  /\ updated' = [q \in Tx |->
                   IF q \in Overlapping(p) THEN updated[q] \cup written[p]
                   ELSE updated[q]]
  /\ outcome' = [outcome EXCEPT ![p] = [kind |-> "ok", login |-> <<>>]]
  /\ pc' = [pc EXCEPT ![p] = "done"]
  /\ UNCHANGED <<opened, dto, user1, user2, fromUser, toUser, written,
                 lookups, saveCalls, failure, snapshot, rvars, qvars, hist,
                 nvars, uvars, avars>>

\* The caller has its result; the request is over and its objects are gone.
Repository_Return(p) ==
  /\ pc[p] = "done"
  /\ snapshot' = [snapshot EXCEPT ![p] = NoSnapshot]
  /\ updated' = [updated EXCEPT ![p] = {}]
  /\ pc' = [pc EXCEPT ![p] = "returned"]
  /\ opened' = [opened EXCEPT ![p] = FALSE]
  /\ dto' = [dto EXCEPT ![p] = NoDto]
  /\ user1' = [user1 EXCEPT ![p] = Null]
  /\ user2' = [user2 EXCEPT ![p] = Null]
  /\ fromUser' = [fromUser EXCEPT ![p] = Null]
  /\ toUser' = [toUser EXCEPT ![p] = Null]
  /\ written' = [written EXCEPT ![p] = {}]
  /\ outcome' = [outcome EXCEPT ![p] = NoOutcome]
  /\ lookups' = [lookups EXCEPT ![p] = <<>>]
  /\ saveCalls' = [saveCalls EXCEPT ![p] = 0]
  /\ failure' = [failure EXCEPT ![p] = NoFailure]
  /\ UNCHANGED <<store, lock, rvars, qvars, hist, nvars, uvars, avars>>

RepositoryCallSteps(p) ==
  \/ Repository_Find1(p)
  \/ Repository_Find2(p)
  \/ Repository_Update(p)
  \/ Repository_Commit(p)
  \/ Repository_Return(p)

RepositorySteps(p) == RepositoryCallSteps(p) \/ Repository_Deadlock(p)

\* amounts of validated requests: whole cents, 0.01 and more
RepositoryAmounts == { c * Cent : c \in 1..MaxBalance }

\* concurrent calls of UserRepository.transfer on three accounts
NextRepository ==
  \/ \E p \in Tx, from \in Logins, to \in Logins, amount \in RepositoryAmounts :
       Repository_Call(p, from, to, amount)
  \/ \E p \in Tx : RepositorySteps(p)
SpecRepository == InitTransfers /\ [][NextRepository]_vars

\* one call of UserRepository.transfer with any arguments, on any store
NextRepositoryCall ==
  \/ \E from \in Logins, to \in Logins, amount \in AnyAmounts :
       Repository_Call(1, from, to, amount)
  \/ RepositoryCallSteps(1)
SpecRepositoryCall == InitCall /\ [][NextRepositoryCall]_vars

\* ----------------------------------------------------------------- claims
InFlight == {"read1", "read2", "save"}
IsCents(x) == x % Scale = 0

\* the balance call p read under lock for `login`
ReadBalance(p, login) ==
  IF user1[p].login = login THEN user1[p].balance ELSE user2[p].balance

\* call p has completed both locking reads and found both accounts
ReadBoth(p) == user1[p].found /\ user2[p].found

\* in this step call p ends with an error
Fails(p) == pc[p] # "done" /\ pc'[p] = "done" /\ outcome'[p].kind # "ok"

\* C1: a transfer that returns successfully, with balances and amount
\* multiples of 0.01, has saved the sender's read balance minus the amount
\* and the receiver's read balance plus the amount; the two balances add up
\* to what they added up to before.
C1_Conservation ==
  \A p \in Tx :
    (pc[p] = "done" /\ outcome[p].kind = "ok" /\ IsCents(dto[p].amount)) =>
      /\ store[dto[p].from] = ReadBalance(p, dto[p].from) - dto[p].amount
      /\ store[dto[p].to] = ReadBalance(p, dto[p].to) + dto[p].amount
      /\ store[dto[p].from] + store[dto[p].to]
           = ReadBalance(p, dto[p].from) + ReadBalance(p, dto[p].to)

\* a successful transfer of a whole, positive number of cents from the login
\* that sorts second
C1_Witness ==
  /\ pc[1] = "done" /\ outcome[1].kind = "ok"
  /\ IsCents(dto[1].amount) /\ dto[1].amount > 0
  /\ StrLess(dto[1].to, dto[1].from)

\* C2: whatever the interleaving of concurrent transfers, the committed
\* balances add up to the initial sum.
C2_SumUnchanged == TotalBalance = initSum

\* two transfers sharing an account have both committed
C2_Witness ==
  \E p \in Tx, q \in Tx :
    /\ p # q
    /\ pc[p] = "done" /\ outcome[p].kind = "ok"
    /\ pc[q] = "done" /\ outcome[q].kind = "ok"
    /\ dto[p].to = dto[q].from

\* C3: whatever the interleaving of transfers of positive amounts and reset
\* jobs, no committed balance is negative.
C3_NonNegative == \A l \in DOMAIN store : store[l] >= 0

\* a transfer was refused for lack of funds after another one had committed,
\* while the reset is running
C3_Witness ==
  /\ \E p \in Tx, q \in Tx :
       /\ outcome[p].kind = "InsufficientFunds"
       /\ outcome[q].kind = "ok"
       /\ dto[p].from = dto[q].from
  /\ rpc = "update"

\* C4: a step in which a transfer fails leaves every committed balance as it
\* was, whatever its save had written; the committed balances change only in
\* the step that commits a transfer, and then both accounts take the saved
\* values together.
C4_RollbackOnFailure ==
  [][ /\ \A p \in Tx : Fails(p) => store' = store
      /\ store' # store =>
           \E p \in Tx :
             /\ pc[p] = "save" /\ outcome'[p].kind = "ok"
             /\ store' = [store EXCEPT ![dto[p].from] = fromUser[p].balance,
                                       ![dto[p].to] = toUser[p].balance]
    ]_vars

\* a save rejected after it had written one of its two rows with a new balance
C4_Witness ==
  /\ pc[1] = "done" /\ outcome[1].kind = "StorageError"
  /\ Cardinality(written[1]) = 1
  /\ \E l \in written[1] :
       l = dto[1].from /\ fromUser[1].balance # store[l]

\* call p waits for a row lock that call q holds
WaitsFor(p, q) ==
  /\ p # q
  /\ \/ pc[p] = "read1" /\ user1Login(p) \in DOMAIN store
                        /\ lock[user1Login(p)] = q
     \/ pc[p] = "read2" /\ user2Login(p) \in DOMAIN store
                        /\ lock[user2Login(p)] = q

RECURSIVE WaitChain(_, _, _)
WaitChain(p, q, n) ==
  \/ WaitsFor(p, q)
  \/ n > 0 /\ \E r \in Tx : WaitsFor(p, r) /\ WaitChain(r, q, n - 1)

\* C5: among concurrent transfers there is never a cycle of calls each
\* waiting for a row lock the next one holds, and a call that holds a lock
\* waits only for the lock of a login that sorts after it.
C5_NoDeadlock ==
  /\ \A p \in Tx : ~WaitChain(p, p, MaxTransfers)
  /\ \A p \in Tx, l \in Logins :
       (pc[p] = "read2" /\ lock[l] = p) => StrLess(l, user2Login(p))

\* two transfers over the same pair in opposite directions, one holding the
\* first lock and the other waiting for it
C5_Witness ==
  \E p \in Tx, q \in Tx :
    /\ WaitsFor(p, q)
    /\ dto[p].from = dto[q].to /\ dto[p].to = dto[q].from

\* C6: the first locking read is for the login that sorts first and the
\* second for the other one, whichever of them is the sender, and the second
\* is issued only once the first has completed.
C6_LookupOrder ==
  \A p \in Tx :
    LET lo == IF StrLess(dto[p].from, dto[p].to) THEN dto[p].from ELSE dto[p].to
        hi == IF StrLess(dto[p].from, dto[p].to) THEN dto[p].to ELSE dto[p].from
    IN  /\ pc[p] = "read1" => lookups[p] = <<lo>>
        /\ pc[p] \in {"read2", "save"} => lookups[p] = <<lo, hi>>
        /\ Len(lookups[p]) = 2 => pc[p] # "read1"
        /\ Len(lookups[p]) <= 2

\* both reads issued by a transfer whose sender sorts after its receiver
C6_Witness ==
  \E p \in Tx :
    /\ StrLess(dto[p].to, dto[p].from)
    /\ dto[p].from = <<2>> /\ dto[p].to = <<1, 1>>
    /\ lookups[p] = <<dto[p].to, dto[p].from>>

\* C7: a transfer from a login to itself always fails with the bad-request
\* error and performs no storage access at all: no transaction is opened,
\* no locking read is issued, no lock is taken, save is not invoked.
C7_NoStorageAccess ==
  \A p \in Tx :
    (pc[p] = "done" /\ dto[p] # NoDto /\ dto[p].from = dto[p].to) =>
      /\ outcome[p].kind = "BadRequestSelf"
      /\ ~opened[p]
      /\ lookups[p] = <<>>
      /\ saveCalls[p] = 0
      /\ written[p] = {}
      /\ \A l \in Logins : lock[l] # p

\* What holds of a self-transfer: the step that makes the call ends it,
\* with the bad-request error unless opening the transaction rejected; no
\* locking read is issued, no lock is taken, save is not invoked and no
\* committed balance changes.
SelfTransferTouchesNoRow ==
  [][ \A p \in Tx :
        (pc[p] = "idle" /\ pc'[p] # "idle" /\ dto'[p].from = dto'[p].to) =>
          /\ pc'[p] = "done"
          /\ outcome'[p].kind = "BadRequestSelf" \/ ~opened'[p]
          /\ lookups'[p] = <<>>
          /\ saveCalls'[p] = 0
          /\ written'[p] = {}
          /\ lock' = lock
          /\ store' = store
    ]_vars

\* C8: a transfer that has read both accounts under lock and asks for more
\* than the sender's balance ends with InsufficientFunds without invoking
\* save, and the step in which it fails changes no committed balance.
C8_InsufficientFunds ==
  /\ [](\A p \in Tx :
          (ReadBoth(p) /\ dto[p].amount > ReadBalance(p, dto[p].from)) =>
            /\ pc[p] = "done"
            /\ outcome[p].kind = "InsufficientFunds"
            /\ saveCalls[p] = 0
            /\ written[p] = {})
  /\ [][ \A p \in Tx :
           outcome'[p].kind = "InsufficientFunds" => store' = store ]_vars

\* a transfer refused for asking one unit more than the sender has
C8_Witness ==
  /\ pc[1] = "done" /\ outcome[1].kind = "InsufficientFunds"
  /\ ReadBoth(1)
  /\ dto[1].amount = ReadBalance(1, dto[1].from) + 1
  /\ store = [l \in DOMAIN store |-> ReadBalance(1, l)]

\* C9: a transfer between two different logins of which at least one has no
\* account, and whose reads did not fail, ends with NotFound naming the
\* sender when the sender is missing and the receiver otherwise; save is not
\* invoked and the step in which it fails changes no committed balance.
C9_NotFound ==
  /\ [](\A p \in Tx :
          ( /\ pc[p] = "done" /\ outcome[p].kind # "StorageError"
            /\ dto[p].from # dto[p].to
            /\ (dto[p].from \notin DOMAIN store \/ dto[p].to \notin DOMAIN store) )
          =>
            /\ outcome[p].kind = "NotFound"
            /\ outcome[p].login =
                 (IF dto[p].from \notin DOMAIN store THEN dto[p].from ELSE dto[p].to)
            /\ saveCalls[p] = 0
            /\ written[p] = {})
  /\ [][ \A p \in Tx : outcome'[p].kind = "NotFound" => store' = store ]_vars

\* neither login has an account and the sender sorts second: the error
\* names the sender
C9_Witness ==
  /\ pc[1] = "done" /\ outcome[1].kind = "NotFound"
  /\ dto[1].from \notin DOMAIN store /\ dto[1].to \notin DOMAIN store
  /\ StrLess(dto[1].to, dto[1].from)
  /\ outcome[1].login = dto[1].from

\* C10: while a transfer is between its second locking read and its commit,
\* the committed balances of its sender and its receiver are the ones it
\* read: no other transfer and no reset has committed a write to them.
C10_ReadsStayValid ==
  \A p \in Tx :
    pc[p] = "save" =>
      /\ store[dto[p].from] = ReadBalance(p, dto[p].from)
      /\ store[dto[p].to] = ReadBalance(p, dto[p].to)

\* a transfer about to save while the reset's UPDATE waits for its rows
C10_Witness ==
  \E p \in Tx :
    /\ pc[p] = "save"
    /\ rpc = "update"
    /\ RowsToLock # {}
    /\ \A l \in RowsToLock : lock[l] = p
    /\ store[dto[p].from] > 0

\* C11: the transaction in which a transfer performs its locking reads, its
\* funds check, its mutation and its save is opened at repeatable-read or
\* stronger, never at the store's weaker default level.
C11_RepeatableRead ==
  \A p \in Tx :
    (opened[p] /\ lookups[p] # <<>>) =>
      IsolationRank(IsolationOf(p)) >= IsolationRank("REPEATABLE READ")

\* The stores a call with the arguments and the outcome of call p leaves
\* when it runs alone on the store s (spec 4.2, steps 1 to 6); none when a
\* call running alone on s would end otherwise than p did.
CallAlone(s, p) ==
  LET d == dto[p]
      o == outcome[p]
  IN  IF o.kind = "StorageError" THEN { s }
      ELSE IF d.from = d.to
        THEN (IF o.kind = "BadRequestSelf" THEN { s } ELSE {})
      ELSE IF d.from \notin DOMAIN s
        THEN (IF o = [kind |-> "NotFound", login |-> d.from] THEN { s } ELSE {})
      ELSE IF d.to \notin DOMAIN s
        THEN (IF o = [kind |-> "NotFound", login |-> d.to] THEN { s } ELSE {})
      ELSE IF s[d.from] < d.amount
        THEN (IF o.kind = "InsufficientFunds" THEN { s } ELSE {})
      ELSE IF o.kind = "ok"
        THEN { [s EXCEPT ![d.from] = nf, ![d.to] = nt] :
                 nf \in ToFixed2(s[d.from] - d.amount),
                 nt \in ToFixed2(s[d.to] + d.amount) }
      ELSE {}

\* The stores the calls order[i], order[i+1], ... leave when they run one
\* after another from the store s, each ending as it did.
RECURSIVE SerialStores(_, _, _)
SerialStores(s, order, i) ==
  IF i > Len(order) THEN { s }
  ELSE UNION { SerialStores(s2, order, i + 1) : s2 \in CallAlone(s, order[i]) }

\* the calls that have ended and whose caller has not returned yet
Ended == { p \in Tx : pc[p] = "done" }

\* every order in which the calls of the set D can run one after another
OrdersOf(D) ==
  { o \in [1..Cardinality(D) -> D] :
      \A i, j \in 1..Cardinality(D) : i # j => o[i] # o[j] }

\* C12: when concurrent transfers have all ended, their outcomes and the
\* committed balances are those of the same calls run one after another in
\* some order from the initial balances; a transfer never holds a read
\* balance of an account while another transfer commits a write to it.
C12_Serializable ==
  /\ [](( /\ Ended # {}
          /\ \A p \in Tx : pc[p] \in {"idle", "done"} )
        => \E o \in OrdersOf(Ended) : store \in SerialStores(store0, o, 1))
  /\ [][ \A p \in Tx, l \in Logins :
           ( /\ store'[l] # store[l]
             /\ pc[p] \in {"read2", "save"} /\ lock[l] = p )
           => pc'[p] = "done" /\ outcome'[p].kind = "ok" ]_vars

\* a transfer holds both locks and is about to save, while a second one
\* whose sender is the first one's receiver and has no money yet waits for it
C12_Witness ==
  \E p \in Tx, q \in Tx :
    /\ pc[p] = "save" /\ WaitsFor(q, p)
    /\ dto[p].to = dto[q].from
    /\ store[dto[q].from] = 0

\* C13: two concurrent transfers on disjoint pairs of accounts with
\* sufficient funds never wait for each other (each locking read is granted
\* as soon as it is issued), end in no error but a storage error, and once
\* they have ended the balances of all accounts are those of running them
\* one after the other, in either order.
C13_DisjointTransfers ==
  /\ \A p \in Tx, q \in Tx : ~WaitsFor(p, q)
  /\ \A p \in Tx :
       /\ pc[p] = "read1" => CanLock(p, user1Login(p))
       /\ pc[p] = "read2" => CanLock(p, user2Login(p))
       /\ outcome[p].kind \in {"none", "ok", "StorageError"}
  /\ (\A p \in Tx : pc[p] \in {"idle", "done"}) =>
       \A o \in OrdersOf(Ended) : store \in SerialStores(store0, o, 1)

\* two transfers on disjoint pairs have both committed
C13_Witness ==
  \E p \in Tx, q \in Tx :
    /\ p # q
    /\ pc[p] = "done" /\ outcome[p].kind = "ok"
    /\ pc[q] = "done" /\ outcome[q].kind = "ok"
    /\ {dto[p].from, dto[p].to} \cap {dto[q].from, dto[q].to} = {}
    /\ store # store0

AllZero == \A l \in DOMAIN store : store[l] = 0

\* C14: whatever the interleaving of a reset job with concurrent transfers,
\* every balance is 0 when the reset has committed and stays 0 while the
\* transfers that were in flight finish: at the commit of the reset no
\* transfer in flight has read a balance yet, so none writes one it read
\* before the reset committed.
C14_ResetNotLost ==
  /\ [](rpc = "committed" => AllZero)
  /\ [][ /\ AllZero => AllZero'
         /\ (rpc = "update" /\ rpc' = "committed") =>
              \A p \in Tx : pc[p] \in InFlight =>
                /\ pc[p] = "read1"
                /\ \A l \in DOMAIN store : lock[l] # p
    ]_vars

\* the reset has committed over a transfer's committed write while another
\* transfer is in flight
C14_Witness ==
  /\ rpc = "committed"
  /\ \E p \in Tx, q \in Tx :
       /\ pc[p] \in InFlight
       /\ pc[q] = "done" /\ outcome[q].kind = "ok"
       /\ toUser[q].balance > 0
  /\ AllZero

\* C15: when a run of the reset job has completed successfully with no
\* transfer under way, the store holds the accounts it held and each has
\* balance 0, whatever the balances were and however many accounts there
\* are, none included.
C15_AllZeroAfterReset ==
  rpc = "committed" =>
    /\ DOMAIN store = DOMAIN store0
    /\ \A l \in DOMAIN store : store[l] = 0

\* a successful run on a store of three accounts that all held money
C15_Witness ==
  /\ rpc = "committed"
  /\ DOMAIN store0 = Logins
  /\ \A l \in Logins : store0[l] > 0 /\ store[l] = 0

Completed == { j \in JobIds : jobs[j].state = "completed" }

\* C16: the reset is idempotent: once one run has succeeded every balance is
\* 0 and stays 0 through every further run, a further successful run leaves
\* the store exactly as it found it, and so the store is the same after
\* one, two or more successful runs.
C16_Idempotent ==
  /\ [](Completed # {} => AllZero /\ DOMAIN store = DOMAIN store0)
  /\ [][ (Completed # {} /\ rpc = "update" /\ rpc' = "committed")
           => store' = store ]_vars

\* two reset jobs have run one after the other and both succeeded, on a
\* store that held money
C16_Witness ==
  /\ Cardinality(Completed) = 2
  /\ \E l \in DOMAIN store0 : store0[l] > 0
  /\ AllZero

\* C17: a transfer between two accounts that completes its locking reads
\* while every balance is 0, as it is from the commit of a reset job until
\* a transfer commits, has read 0 for both accounts; for every amount above
\* 0 it then fails with InsufficientFunds, without a save and leaving every
\* balance at 0.
C17_TransferAfterReset ==
  [][ \A p \in Tx :
        ( /\ AllZero
          /\ pc[p] = "read2" /\ pc'[p] # "read2"
          /\ outcome'[p].kind # "StorageError"
          /\ dto[p].from \in DOMAIN store /\ dto[p].to \in DOMAIN store )
        => /\ user1[p].balance = 0 /\ user2'[p].balance = 0
           /\ dto[p].amount > 0 =>
                /\ pc'[p] = "done"
                /\ outcome'[p].kind = "InsufficientFunds"
                /\ saveCalls'[p] = 0
                /\ store' = store /\ AllZero'
    ]_vars

\* the reset has committed on a store where the sender had enough money;
\* a transfer then read 0 for both accounts and was refused
C17_Witness ==
  /\ rpc = "committed"
  /\ pc[1] = "done" /\ outcome[1].kind = "InsufficientFunds"
  /\ ReadBoth(1)
  /\ user1[1].balance = 0 /\ user2[1].balance = 0
  /\ dto[1].amount > 0
  /\ store0[dto[1].from] >= dto[1].amount

\* C18: whenever the reset inside process() has failed, process() has
\* logged the start and then the error it caught, once, and no success
\* message, and has rejected with that very error; a run that has failed
\* never completes normally.
C18_ErrorPropagated ==
  /\ [](rpc = "failed" =>
          /\ caught \in StorageErrors
          /\ log = <<StartEntry, ErrorEntry(caught)>>
          /\ rejected = caught)
  /\ [](rpc # "failed" => caught = NoError /\ rejected = NoError)
  /\ [][rpc = "failed" => rpc' \in {"failed", "idle"}]_vars

\* the UPDATE was stopped as a deadlock victim after it had written a row
C18_Witness ==
  /\ rpc = "failed"
  /\ rdone # {} /\ RowsToLock # {}
  /\ rejected = "deadlock detected"

InLog(entry) == \E i \in 1..Len(log) : log[i] = entry

\* C19: a run of the reset job goes from idle to running and from there to
\* exactly one of committed and failed; the start message is the first log
\* entry, the success message is logged only once the reset has committed
\* and is then the second and last entry, and no run logs both the success
\* message and an error.
C19_RunStates ==
  /\ [][ /\ rpc = "idle" => rpc' \in {"idle", "update"}
         /\ rpc = "update" => rpc' \in {"update", "committed", "failed"}
         /\ rpc = "committed" => rpc' \in {"committed", "idle"}
         /\ rpc = "failed" => rpc' \in {"failed", "idle"} ]_vars
  /\ [](/\ rpc = "idle" => log = <<>>
        /\ rpc = "update" => log = <<StartEntry>>
        /\ rpc = "committed" => log = <<StartEntry, SuccessEntry>> /\ AllZero
        /\ rpc = "failed" => Len(log) = 2 /\ log[1] = StartEntry
                              /\ log[2].level = "error"
        /\ InLog(SuccessEntry) => rpc = "committed"
        /\ ~(InLog(SuccessEntry) /\ \E e \in StorageErrors : InLog(ErrorEntry(e))))

\* a run that committed on a store of accounts with money and logged its
\* two messages
C19_Witness ==
  /\ rpc = "committed"
  /\ log = <<StartEntry, SuccessEntry>>
  /\ rdone # {}
  /\ \E l \in DOMAIN store0 : store0[l] > 0

Enqueued == { j \in JobIds : jobs[j].state # "none" }
Queued == { c \in Callers : reply[c].kind = "queued" }

\* C21: each call of resetAllBalances whose add is accepted has added one
\* job named 'reset-all-balances' with an empty payload and returned the
\* message and that job's id, in the step in which the job was enqueued:
\* the job is still waiting and has not been processed, and the call has
\* changed no balance; there are as many jobs as accepted calls, each call
\* with a job of its own.
C21_OneJobPerCall ==
  /\ [](/\ Cardinality(Enqueued) = Cardinality(Queued)
        /\ \A j \in Enqueued :
             jobs[j].name = "reset-all-balances" /\ jobs[j].data = <<>>
        /\ \A c \in Queued :
             /\ reply[c].jobId \in Enqueued
             /\ reply[c].message = QueuedMessage
             /\ \A b \in Queued : b # c => reply[b].jobId # reply[c].jobId)
  /\ [][ \A c \in Callers :
           spc'[c] # spc[c] =>
             /\ store' = store
             /\ rpc' = rpc
             /\ reply'[c].kind = "queued" =>
                  /\ Enqueued' = Enqueued \cup {reply'[c].jobId}
                  /\ reply'[c].jobId \notin Enqueued
                  /\ jobs'[reply'[c].jobId].state = "waiting"
                  /\ jobs'[reply'[c].jobId].runs = 0
             /\ reply'[c].kind # "queued" => Enqueued' = Enqueued ]_vars

\* two calls were under way together and both have returned, the second
\* while the worker was still busy with the first one's job
C21_Witness ==
  /\ reply[1].kind = "queued" /\ reply[2].kind = "queued"
  /\ reply[1].jobId # reply[2].jobId
  /\ jobs[reply[1].jobId].state = "active"
  /\ jobs[reply[2].jobId].state = "waiting"
  /\ \E l \in DOMAIN store : store[l] > 0

\* C22: a successful transfer returns as fromUser the account whose login
\* is `from` and as toUser the one whose login is `to`, each with its
\* committed post-transfer balance, whichever of the two was read first,
\* and transferredAmount is the requested amount.
C22_ReturnsBothAccounts ==
  \A p \in Tx :
    (pc[p] = "done" /\ outcome[p].kind = "ok") =>
      /\ TransferResult(p).fromUser.login = dto[p].from
      /\ TransferResult(p).toUser.login = dto[p].to
      /\ TransferResult(p).fromUser.balance = store[dto[p].from]
      /\ TransferResult(p).toUser.balance = store[dto[p].to]
      /\ TransferResult(p).transferredAmount = dto[p].amount
      /\ user1[p].login = dto[p].from =>
           /\ TransferResult(p).fromUser.login = user1[p].login
           /\ TransferResult(p).toUser.login = user2[p].login
      /\ user1[p].login # dto[p].from =>
           /\ TransferResult(p).fromUser.login = user2[p].login
           /\ TransferResult(p).toUser.login = user1[p].login

\* a successful transfer of 0.01 whose sender sorts after the receiver and
\* was read second
C22_Witness ==
  /\ pc[1] = "done" /\ outcome[1].kind = "ok"
  /\ user2[1].login = dto[1].from /\ user1[1].login = dto[1].to
  /\ TransferResult(1).transferredAmount = Cent
  /\ TransferResult(1).fromUser.balance = user2[1].balance - Cent
  /\ TransferResult(1).toUser.balance = user1[1].balance + Cent

\* C29: the funds check is strict.  A transfer that has read both accounts
\* and asks for exactly the sender's balance is never refused for
\* insufficient funds, it goes on to save and, when it succeeds, leaves the
\* sender at exactly 0; one that asks for 0.01 or more above the balance
\* ends with InsufficientFunds.
C29_StrictFundsCheck ==
  \A p \in Tx :
    ReadBoth(p) =>
      /\ dto[p].amount = ReadBalance(p, dto[p].from) =>
           /\ pc[p] \in {"save", "done"}
           /\ saveCalls[p] = 1
           /\ outcome[p].kind \in {"none", "ok", "StorageError"}
           /\ (pc[p] = "done" /\ outcome[p].kind = "ok") =>
                store[dto[p].from] = 0
      /\ dto[p].amount >= ReadBalance(p, dto[p].from) + Cent =>
           /\ pc[p] = "done"
           /\ outcome[p].kind = "InsufficientFunds"

\* 0.01 sent from a balance of exactly 0.01: the sender is left with 0
C29_Witness ==
  /\ pc[1] = "done" /\ outcome[1].kind = "ok"
  /\ dto[1].amount = Cent
  /\ ReadBalance(1, dto[1].from) = Cent
  /\ store[dto[1].from] = 0
  /\ store[dto[1].to] = ReadBalance(1, dto[1].to) + Cent

\* C27: a transfer invokes save at most once; while the save is under way
\* the call's open transaction holds the row locks on both accounts, and
\* the step that invokes save leaves it holding both; a successful transfer
\* has invoked save exactly once and that one save wrote both accounts; a
\* transfer refused as a self-transfer, for a missing account or for
\* insufficient funds has never invoked save.
C27_OneSaveUnderLocks ==
  /\ [](\A p \in Tx :
          /\ saveCalls[p] <= 1
          /\ pc[p] = "save" =>
               /\ saveCalls[p] = 1
               /\ opened[p]
               /\ {fromUser[p].login, toUser[p].login} = {dto[p].from, dto[p].to}
               /\ lock[dto[p].from] = p /\ lock[dto[p].to] = p
          /\ (pc[p] = "done" /\ outcome[p].kind = "ok") =>
               /\ saveCalls[p] = 1
               /\ written[p] = {dto[p].from, dto[p].to}
          /\ outcome[p].kind \in {"BadRequestSelf", "NotFound", "InsufficientFunds"} =>
               /\ saveCalls[p] = 0
               /\ written[p] = {})
  /\ [][ \A p \in Tx :
           saveCalls'[p] > saveCalls[p] =>
             /\ pc[p] = "read2" /\ pc'[p] = "save"
             /\ lock'[dto[p].from] = p /\ lock'[dto[p].to] = p
             /\ store' = store ]_vars

\* one transfer has saved and committed while the other, which shares an
\* account with it, was held up at its first read; a third login is missing
C27_Witness ==
  /\ pc[1] = "done" /\ outcome[1].kind = "ok" /\ saveCalls[1] = 1
  /\ written[1] = {<<1>>, <<2>>}
  /\ pc[2] = "read1" /\ dto[2].to = <<1, 1>> /\ saveCalls[2] = 0

\* C26: a transfer between different logins issues both locking reads
\* before it looks at either result: a first read that resolves, found or
\* not, is followed by the second read, and NotFound is raised only by the
\* step in which the second read resolves, after two reads.
C26_BothReadsBeforeCheck ==
  /\ [](\A p \in Tx :
          /\ pc[p] = "read2" => Len(lookups[p]) = 2
          /\ outcome[p].kind = "NotFound" =>
               lookups[p] = <<user1Login(p), user2Login(p)>>)
  /\ [][ \A p \in Tx :
           /\ (pc[p] = "read1" /\ pc'[p] # "read1") =>
                \/ outcome'[p].kind = "StorageError"
                \/ /\ pc'[p] = "read2"
                   /\ lookups'[p] = <<user1Login(p), user2Login(p)>>
           /\ (outcome'[p].kind = "NotFound" /\ outcome[p].kind # "NotFound") =>
                /\ pc[p] = "read2"
                /\ Len(lookups[p]) = 2 ]_vars

\* the lower-sorted login has no account, the other has one: the second
\* account was read all the same before NotFound was raised
C26_Witness ==
  /\ pc[1] = "done" /\ outcome[1].kind = "NotFound"
  /\ ~user1[1].found /\ user2[1].found
  /\ lookups[1] = <<user1Login(1), user2Login(1)>>
  /\ outcome[1].login = user1Login(1)

\* C24: when a locking read or the save of a transfer is rejected by the
\* store, that step ends the call: it issues no further read and no save,
\* then or later, it never goes back to a read or to the save, and the
\* call rejects with the very error the store raised.
C24_StorageErrorPropagates ==
  /\ [](\A p \in Tx :
          outcome[p].kind = "StorageError" =>
            /\ pc[p] = "done"
            /\ failure[p].raised \in StorageErrors
            /\ failure[p].thrown = failure[p].raised)
  /\ [][ \A p \in Tx :
           /\ (pc[p] \in InFlight /\ outcome'[p].kind = "StorageError") =>
                /\ pc'[p] = "done"
                /\ lookups'[p] = lookups[p]
                /\ saveCalls'[p] = saveCalls[p]
                /\ store' = store
           /\ outcome[p].kind = "StorageError" =>
                /\ pc'[p] \in {"done", "returned"}
                /\ pc'[p] = "done" =>
                     /\ lookups'[p] = lookups[p]
                     /\ saveCalls'[p] = saveCalls[p]
                     /\ failure'[p] = failure[p]
                     /\ outcome'[p] = outcome[p] ]_vars

\* the second locking read was rejected with a deadlock: two reads issued,
\* no save, and the call rejected with that error
C24_Witness ==
  /\ pc[1] = "done" /\ outcome[1].kind = "StorageError"
  /\ failure[1] = [raised |-> "deadlock detected", thrown |-> "deadlock detected"]
  /\ Len(lookups[1]) = 2 /\ saveCalls[1] = 0
  /\ user1[1].found

\* C23: with balances and amounts that are whole numbers of cents, every
\* committed balance is a whole number of cents, a successful transfer
\* leaves exactly the read balance minus the amount and the read balance
\* plus the amount, and 33.33 sent from 100.00 to 50.00 leaves exactly
\* 66.67 and 83.33.
C23_ExactCents ==
  /\ \A l \in DOMAIN store : IsCents(store[l]) /\ store[l] >= 0
  /\ \A p \in Tx :
       (pc[p] = "done" /\ outcome[p].kind = "ok") =>
         /\ IsCents(fromUser[p].balance) /\ IsCents(toUser[p].balance)
         /\ store[dto[p].from] + dto[p].amount = ReadBalance(p, dto[p].from)
         /\ store[dto[p].to] - dto[p].amount = ReadBalance(p, dto[p].to)
         /\ ( /\ ReadBalance(p, dto[p].from) = 10000 * Cent
              /\ ReadBalance(p, dto[p].to) = 5000 * Cent
              /\ dto[p].amount = 3333 * Cent ) =>
              /\ store[dto[p].from] = 6667 * Cent
              /\ store[dto[p].to] = 8333 * Cent

\* 33.33 has been transferred from 100.00 to 50.00
C23_Witness ==
  /\ pc[1] = "done" /\ outcome[1].kind = "ok"
  /\ store0[dto[1].from] = 10000 * Cent /\ store0[dto[1].to] = 5000 * Cent
  /\ dto[1].amount = 3333 * Cent
  /\ fromUser[1].balance = 6667 * Cent /\ toUser[1].balance = 8333 * Cent

\* C28: with a store that answers, every transfer that has started ends,
\* committed or failed; a transfer that has ended, on whichever path,
\* holds no row lock, and its last step released all it held; so a
\* transfer waiting for a lock another one holds does not wait for ever.
C28_TerminatesAndReleases ==
  /\ \A p \in Tx : (pc[p] \in InFlight) ~> (pc[p] = "done")
  /\ [](\A p \in Tx :
          pc[p] \notin InFlight => \A l \in DOMAIN lock : lock[l] # p)
  /\ \A p \in Tx, q \in Tx :
       WaitsFor(p, q) ~> (\A l \in DOMAIN lock : lock[l] # q)
  /\ \A p \in Tx :
       (\E q \in Tx : WaitsFor(p, q)) ~> (\A q \in Tx : ~WaitsFor(p, q))

\* the first transfer locked an account, found the other one missing and
\* was rolled back; the second, which waited for that account, can go on
C28_Witness ==
  /\ pc[1] = "done" /\ outcome[1].kind = "NotFound" /\ user1[1].found
  /\ pc[2] = "read1" /\ user1Login(2) = user1[1].login
  /\ lock[user1Login(2)] = NoOwner

\* the storage calls of a run that succeeds, of one whose update fails and
\* of one whose commit fails
SuccessOrder ==
  <<"connect", "startTransaction", "execute", "commitTransaction", "release">>
UpdateFailureOrder ==
  <<"connect", "startTransaction", "execute", "rollbackTransaction", "release">>
CommitFailureOrder ==
  <<"connect", "startTransaction", "execute", "commitTransaction",
    "rollbackTransaction", "release">>
IsPrefix(s, t) == Len(s) <= Len(t) /\ s = SubSeq(t, 1, Len(s))
Occurrences(s, call) == Cardinality({ i \in 1..Len(s) : s[i] = call })

\* C30: in the query-runner variant the storage calls of a run are made in
\* the order connect, startTransaction, execute, commitTransaction, release
\* when nothing up to the commit fails, and connect, startTransaction,
\* execute, rollbackTransaction, release when the update fails; after a
\* failed update commitTransaction is never called; release, once called,
\* is the last call and is called once.
C30_OrderOfStorageCalls ==
  /\ failedAt = NoCall => IsPrefix(calls, SuccessOrder)
  /\ failedAt = "execute" =>
       /\ IsPrefix(calls, UpdateFailureOrder)
       /\ Occurrences(calls, "commitTransaction") = 0
  /\ failedAt = "commitTransaction" => IsPrefix(calls, CommitFailureOrder)
  /\ (InLog(SuccessEntry) \/ rpc = "committed") => calls = SuccessOrder
  /\ (failedAt = "execute" /\ rpc \in {"release", "failed"}) =>
       calls = UpdateFailureOrder
  /\ Occurrences(calls, "release") <= 1
  /\ Occurrences(calls, "release") = 1 => calls[Len(calls)] = "release"
  /\ (rpc \in {"release", "committed"} \/ (rpc = "failed" /\ Len(calls) > 2)) =>
       calls[Len(calls)] = "release"

\* a run whose update was rejected has rolled back, released the query
\* runner and rejected with the update's error
C30_Witness ==
  /\ rpc = "failed" /\ failedAt = "execute"
  /\ calls = UpdateFailureOrder
  /\ rejected = caught /\ caught = "deadlock detected"
  /\ \E l \in DOMAIN store : store[l] > 0

LoginTaken(login) == \E a \in accounts : a.login = login
EmailTaken(email) == \E a \in accounts : a.email = email
\* in this step call c ends
UserEnds(c) == upc[c] # "done" /\ upc'[c] = "done"

\* no two accounts share a login and no two accounts share an email
UniqueLoginsAndEmails ==
  \A a \in accounts, b \in accounts :
    (a.login = b.login \/ a.email = b.email) => a = b

HasRejected(call) == \E i \in 1..Len(rejections) : rejections[i].call = call
ErrorOf(call) ==
  (CHOOSE r \in { rejections[i] : i \in 1..Len(rejections) } : r.call = call).error
RunEnded == rpc \in {"committed", "failed"}
ErrorLogged == \E i \in 1..Len(log) : log[i].level = "error"

\* C31: a run of the query-runner process() that has ended has called
\* release exactly once if connect and startTransaction both succeeded,
\* whether or not the update then succeeded, and not at all otherwise;
\* when connect or startTransaction rejects, the run ends at once
\* without release, without rollback and without an error log entry.
C31_ReleasedIffStarted ==
  /\ Occurrences(calls, "release") <= 1
  /\ RunEnded =>
       ( Occurrences(calls, "release") = 1
           <=> ~HasRejected("connect") /\ ~HasRejected("startTransaction") )
  /\ (RunEnded /\ Occurrences(calls, "execute") = 1) =>
       Occurrences(calls, "release") = 1
  /\ (HasRejected("connect") \/ HasRejected("startTransaction")) =>
       /\ rpc = "failed"
       /\ Occurrences(calls, "release") = 0
       /\ Occurrences(calls, "rollbackTransaction") = 0
       /\ ~ErrorLogged
       /\ log = <<StartEntry>>
       /\ rejected = rejections[1].error

\* startTransaction was rejected: the run has failed with two calls made,
\* release not among them, and only the start message logged
C31_Witness ==
  /\ rpc = "failed" /\ HasRejected("startTransaction")
  /\ calls = <<"connect", "startTransaction">>
  /\ log = <<StartEntry>>
  /\ rejected = "connection lost"

\* C32: a run that has ended has called rollbackTransaction exactly once
\* if the update or the commit was rejected, and not at all otherwise, in
\* particular not on a run that logged success; once the commit has been
\* rejected, the error is logged and the rollback called, and the run
\* fails, with the commit's error when rollback and release succeed.
C32_RollbackIffFailedInTry ==
  /\ Occurrences(calls, "rollbackTransaction") <= 1
  /\ RunEnded =>
       ( Occurrences(calls, "rollbackTransaction") = 1
           <=> HasRejected("execute") \/ HasRejected("commitTransaction") )
  /\ InLog(SuccessEntry) => Occurrences(calls, "rollbackTransaction") = 0
  /\ rpc = "committed" => Occurrences(calls, "rollbackTransaction") = 0
  /\ \A call \in InsideTry :
       HasRejected(call) =>
         /\ Occurrences(calls, "rollbackTransaction") = 1
         /\ InLog(ErrorEntry(ErrorOf(call)))
         /\ rpc \in {"rollbackTransaction", "release", "failed"}
         /\ ( /\ rpc = "failed"
              /\ ~HasRejected("rollbackTransaction")
              /\ ~HasRejected("release") ) => rejected = ErrorOf(call)

\* the commit was rejected; the run rolled back, released the query runner
\* and failed with the commit's error, which it had logged
C32_Witness ==
  /\ rpc = "failed"
  /\ rejections = << [call |-> "commitTransaction", error |-> "connection lost"] >>
  /\ calls = CommitFailureOrder
  /\ InLog(ErrorEntry("connection lost"))
  /\ rejected = "connection lost"

\* C33: a run that has failed rejects with the error of the last storage
\* call that rejected: the update's or the commit's when rollback and
\* release succeed, the rollback's when rollback rejects (release is still
\* called once), the release's when release rejects, also when the reset
\* has been committed and success logged; a run that resolves had no
\* rejection.
C33_LastErrorWins ==
  /\ rpc = "failed" =>
       /\ rejections # <<>>
       /\ rejected = rejections[Len(rejections)].error
  /\ rpc = "committed" => rejections = <<>> /\ rejected = NoError
  /\ (HasRejected("rollbackTransaction") /\ RunEnded) =>
       /\ Occurrences(calls, "release") = 1
       /\ ~HasRejected("release") => rejected = ErrorOf("rollbackTransaction")
  /\ HasRejected("release") =>
       /\ rpc = "failed"
       /\ rejected = ErrorOf("release")

\* the reset was committed and success logged, then release was rejected:
\* the job has failed with the release error although every balance is 0
C33_Witness ==
  /\ rpc = "failed" /\ InLog(SuccessEntry)
  /\ rejections = << [call |-> "release", error |-> "connection lost"] >>
  /\ rejected = "connection lost"
  /\ \A l \in DOMAIN store : store[l] = 0
  /\ \E l \in DOMAIN store : store0[l] > 0

\* C34: the user never has more than 5 avatars, and an uploadAvatar whose
\* lookup finds the user with 5 avatars (or more) ends there with the
\* BadRequest of the limit, having uploaded no file and stored no avatar.
C34_AtMostFiveAvatars ==
  /\ [](Cardinality(avatars) <= 5)
  /\ [][ \A c \in Clients :
           ( /\ apc[c] = "findUser" /\ apc'[c] # "findUser"
             /\ areq[c].login = AvatarOwner
             /\ Cardinality(avatars) >= 5 ) =>
             /\ apc'[c] = "done"
             /\ ares'[c] = "BadRequestLimit"
             /\ files' = files
             /\ avatars' = avatars ]_vars

\* C35: a call transfer(from, to, amount) leaves the set of accounts and
\* their logins as they are, changes no balance but those of `from` and
\* `to`, and those only in the step that commits it; a call that has
\* failed has changed no balance at all, and the step in which it fails
\* changes none.
C35_FrameOfTransfer ==
  /\ [](/\ DOMAIN store = DOMAIN store0
        /\ \A p \in Tx :
             /\ pc[p] \in InFlight \cup {"done"} =>
                  \A l \in DOMAIN store :
                    l \notin {dto[p].from, dto[p].to} => store[l] = store0[l]
             /\ (pc[p] \in InFlight
                   \/ (pc[p] = "done" /\ outcome[p].kind # "ok")) =>
                  store = store0)
  /\ [][ /\ DOMAIN store' = DOMAIN store
         /\ \A p \in Tx : Fails(p) => store' = store
         /\ \A l \in DOMAIN store :
              store'[l] # store[l] =>
                \E p \in Tx : /\ pc[p] = "save" /\ outcome'[p].kind = "ok"
                              /\ l \in {dto[p].from, dto[p].to} ]_vars

\* a transfer between two of three accounts has committed: the third
\* account holds what it held
C35_Witness ==
  /\ pc[1] = "done" /\ outcome[1].kind = "ok"
  /\ store[dto[1].from] # store0[dto[1].from]
  /\ store[dto[1].to] # store0[dto[1].to]
  /\ \E l \in DOMAIN store :
       /\ l \notin {dto[1].from, dto[1].to}
       /\ store[l] = store0[l] /\ store[l] = 2 * Cent

\* C36: a transfer that gets as far as its save, or succeeds, was asked
\* for 0.01 or more; a call asked for 0 or less fails with no balance
\* changed; so a committed transfer never lowers the receiver's balance,
\* never raises the sender's, and no balance is ever below 0.
C36_PositiveAmounts ==
  /\ \A p \in Tx :
       /\ (pc[p] = "save" \/ (pc[p] = "done" /\ outcome[p].kind = "ok")) =>
            dto[p].amount >= Cent
       /\ (pc[p] = "done" /\ dto[p] # NoDto /\ dto[p].amount <= 0) =>
            /\ outcome[p].kind # "ok"
            /\ store = store0
       /\ (pc[p] = "done" /\ outcome[p].kind = "ok") =>
            /\ store[dto[p].to] >= store0[dto[p].to]
            /\ store[dto[p].from] <= store0[dto[p].from]
  /\ \A l \in DOMAIN store : store[l] >= 0

\* C37: UserRepository.transfer with from = to either fails or leaves the
\* account's stored balance unchanged; it never hands save a balance for the
\* account that differs from the one it read.
C37_SelfTransferConserves ==
  \A p \in Tx :
    (pc[p] \in {"update1", "update2", "commit", "done"}
       /\ dto[p].from = dto[p].to) =>
      /\ pc[p] # "done" =>
            /\ fromUser[p].balance = user1[p].balance
            /\ toUser[p].balance = user2[p].balance
      /\ pc[p] = "done" => outcome[p].kind # "ok" \/ store = store0

\* The stores a call of UserRepository.transfer with the arguments and the
\* outcome of call p leaves when it runs alone on the store s; none when a
\* call running alone on s would end otherwise than p did.
RepositoryAlone(s, p) ==
  LET d == dto[p]
      o == outcome[p]
  IN  IF o.kind = "StorageError" THEN { s }
      ELSE IF d.from \notin DOMAIN s
        THEN (IF o = [kind |-> "NotFound", login |-> d.from] THEN { s } ELSE {})
      ELSE IF d.to \notin DOMAIN s
        THEN (IF o = [kind |-> "NotFound", login |-> d.to] THEN { s } ELSE {})
      ELSE IF s[d.from] < d.amount
        THEN (IF o.kind = "InsufficientFunds" THEN { s } ELSE {})
      ELSE IF o.kind # "ok" THEN {}
      ELSE IF d.from = d.to
        THEN { [s EXCEPT ![d.to] = nt] : nt \in ToFixed2(s[d.to] + d.amount) }
      ELSE { [s EXCEPT ![d.from] = nf, ![d.to] = nt] :
               nf \in ToFixed2(s[d.from] - d.amount),
               nt \in ToFixed2(s[d.to] + d.amount) }

\* The stores the calls order[i], order[i+1], ... of UserRepository.transfer
\* leave when they run one after another from s, each ending as it did.
RECURSIVE RepositorySerial(_, _, _)
RepositorySerial(s, order, i) ==
  IF i > Len(order) THEN { s }
  ELSE UNION { RepositorySerial(s2, order, i + 1) :
                 s2 \in RepositoryAlone(s, order[i]) }

\* calls p and q name a common account
ShareAccount(p, q) == {dto[p].from, dto[p].to} \cap {dto[q].from, dto[q].to} # {}

\* C38: for concurrent calls of UserRepository.transfer with positive
\* amounts (repeatable-read transactions, plain reads, no lock order), once
\* the calls have ended the committed balances and the outcomes are those
\* of the same calls run one after another in some order, a call that the
\* store failed having changed nothing; no balance is ever negative; the
\* committed rows change only when a call commits, the commit of a call
\* between two different accounts keeps the total, and no commit replaces a
\* row that has changed since the committing call read it.
C38_ConcurrentRepositoryTransfers ==
  /\ [](( /\ Ended # {}
          /\ \A p \in Tx : pc[p] \in {"idle", "done"} )
        => \E o \in OrdersOf(Ended) : store \in RepositorySerial(store0, o, 1))
  /\ [](\A l \in DOMAIN store : store[l] >= 0)
  /\ [][ store' # store =>
           \E p \in Tx :
             /\ pc[p] = "commit" /\ pc'[p] = "done" /\ outcome'[p].kind = "ok"
             /\ dto[p].from # dto[p].to => TotalBalance' = TotalBalance
             /\ \A l \in DOMAIN store :
                  store'[l] # store[l] =>
                    /\ l \in {dto[p].from, dto[p].to}
                    /\ store[l] = snapshot[p].rows[l] ]_vars

\* two ended calls between different accounts that share an account: one
\* has committed, the other was failed by the store for its concurrent
\* update and has changed nothing
C38_Witness ==
  \E p \in Tx, q \in Tx :
    /\ p # q /\ pc[p] = "done" /\ pc[q] = "done"
    /\ dto[p].from # dto[p].to /\ dto[q].from # dto[q].to
    /\ ShareAccount(p, q)
    /\ outcome[p].kind = "ok"
    /\ failure[q].raised = SerializationFailure
    /\ store # store0

=============================================================================
